---------------------------- MODULE Spec2Model ----------------------------
(***************************************************************************)
(* A model of the POI manager GUI of qudi (opxpoimanager.py): the name     *)
(* validator, the POI markers, the marker collection and the active-POI    *)
(* dropdown of PoiManagerGui, its signal connections and its lifecycle.    *)
(*                                                                         *)
(* Strings that the code inspects character by character (the validator's  *)
(* input) are sequences of characters.  POI names are opaque strings.      *)
(***************************************************************************)
EXTENDS Integers, Sequences, FiniteSets, TLC

(***************************************************************************)
(* Bounds of the model.                                                    *)
(***************************************************************************)
\* longest validator input that is enumerated
MaxLen == 3
\* most notifications queued for the GUI thread at a time
MaxQueue == 2
\* most activations of the GUI module in a run
MaxActivations == 2
\* POIs the backend holds at most while the GUI follows it step by step
MaxPois == 2
\* ROIs the backend loads at most
MaxLoads == 2
\* Rows a history array the backend delivers has at most
MaxRows == 2
\* Calls made on a marker on its own at most
MaxCalls == 3
\* Calls the backend's thread makes while one on_activate runs
MaxRacing == 2

(***************************************************************************)
(* NameValidator                                                           *)
(***************************************************************************)
\* Characters of [A-Za-z0-9_]: a letter, a digit, the underscore.
AsciiWordChars == {"a", "b", "c", "7", "_"}
\* A character that Python's \w matches in a str pattern (Unicode-aware)
\* but that is not in [A-Za-z0-9_]: U+00E9, e with acute accent.
UnicodeWordChars == {"U+00E9"}
\* Characters no \w matches: punctuation.
NonWordChars == {"!", "@"}
Chars == AsciiWordChars \cup UnicodeWordChars \cup NonWordChars

\* [\w] of name_re, a str pattern: re.UNICODE is the default.
IsWordChar(c) == c \in AsciiWordChars \cup UnicodeWordChars

RECURSIVE StringsOfLen(_)
StringsOfLen(n) ==
    IF n = 0 THEN {<<>>}
    ELSE {Append(s, c) : s \in StringsOfLen(n - 1), c \in Chars}

RECURSIVE StringsUpTo(_)
StringsUpTo(n) ==
    IF n = 0 THEN StringsOfLen(0) ELSE StringsOfLen(n) \cup StringsUpTo(n - 1)

\* Length of the greedy run [\w]+ that starts at index i of s (0 if none).
RECURSIVE RunLen(_, _)
RunLen(s, i) ==
    IF i > Len(s) \/ ~IsWordChar(s[i]) THEN 0 ELSE 1 + RunLen(s, i + 1)

\* name_re.search(text): the leftmost match.
RECURSIVE ReSearchFrom(_, _)
ReSearchFrom(s, i) ==
    IF i > Len(s) THEN [found |-> FALSE, group |-> <<>>]
    ELSE IF RunLen(s, i) > 0
         THEN [found |-> TRUE, group |-> SubSeq(s, i, i + RunLen(s, i) - 1)]
         ELSE ReSearchFrom(s, i + 1)

ReSearch(s) == ReSearchFrom(s, 1)

\* name_re.match(string): anchored at the start; not found when [\w]+ fails.
ReMatch(s) ==
    IF RunLen(s, 1) = 0 THEN [found |-> FALSE, group |-> <<>>]
    ELSE [found |-> TRUE, group |-> SubSeq(s, 1, RunLen(s, 1))]

\* A slip: the empty string handled without looking at empty_allowed.
ValidateIgnoringEmptyAllowed(empty_allowed, string, position) ==
    IF string = <<>>
    THEN [state |-> "Intermediate", string |-> string, position |-> position]
    ELSE LET match == ReMatch(string) IN
         IF ~match.found
         THEN [state |-> "Invalid", string |-> <<>>, position |-> position]
         ELSE IF match.group = string
              THEN [state |-> "Acceptable", string |-> string, position |-> position]
              ELSE [state |-> "Invalid", string |-> match.group, position |-> position]

\* NameValidator.validate(string, position) -> (state, string, position)
Validate(empty_allowed, string, position) ==
    IF string = <<>>
    THEN IF empty_allowed
         THEN [state |-> "Acceptable", string |-> <<>>, position |-> position]
         ELSE [state |-> "Intermediate", string |-> string, position |-> position]
    ELSE LET match == ReMatch(string) IN
         IF ~match.found
         THEN [state |-> "Invalid", string |-> <<>>, position |-> position]
         ELSE IF match.group = string
              THEN [state |-> "Acceptable", string |-> string, position |-> position]
              ELSE [state |-> "Invalid", string |-> match.group, position |-> position]

\* NameValidator.fixup(text)
Fixup(text) ==
    LET match == ReSearch(text) IN
    IF match.found THEN match.group ELSE <<>>

NoResult == [state |-> "none", string |-> <<>>, position |-> 0]

(***************************************************************************)
(* Values the POI part of the model works with.                            *)
(***************************************************************************)
\* POI names the backend may use; "" stands for "no name" (None or '').
PoiNames == {"poi1", "poi2", "poi10"}
NoName == ""

\* The number a name ends with: what natural_sort compares after the common
\* prefix "poi" (plain string order would put "poi10" before "poi2").
NameNumber(n) == CASE n = "poi1" -> 1 [] n = "poi2" -> 2 [] n = "poi10" -> 10

\* 3D positions (x, y, z) the backend may report, and np.zeros(3).
Positions3D == {<<1, 2, 3>>, <<4, 5, 6>>}
Zeros3 == <<0, 0, 0>>

\* position[:2]
Proj2(p) == <<p[1], p[2]>>

\* Values of optimise_xy_size the backend may report.
OptimiseSizes == {1, 2}

\* A length is kept as the arithmetic computed it: s is the optimisation size,
\* via is "mul" for s * sqrt(2) and "div" for 2 * (s / sqrt(2)).  As real
\* numbers the two agree.
SizeMul(s) == [s |-> s, via |-> "mul"]
SizeDiv(s) == [s |-> s, via |-> "div"]

(***************************************************************************)
(* PoiMarker                                                               *)
(***************************************************************************)
default_pen == [color |-> "#F0F", width |-> 2]
select_pen == [color |-> "#FFF", width |-> 2]

\* PoiMarker.__init__(position, radius, poi_name) with radius = s / sqrt(2):
\* the ellipse gets size (2 * radius, 2 * radius).  in_view tells whether the
\* marker and its label are items of the plot widget, conn counts the
\* connections of its sigPoiSelected.
PoiMarker(position, s, poi_name) ==
    [poi_name |-> poi_name,
     selected |-> FALSE,
     pen |-> default_pen,
     label_color |-> default_pen.color,
     position |-> position,
     size |-> SizeDiv(s),
     in_view |-> FALSE,
     conn |-> 0]

\* PoiMarker.add_to_view_widget / delete_from_view_widget
add_to_view_widget(m) == [m EXCEPT !.in_view = TRUE]
delete_from_view_widget(m) == [m EXCEPT !.in_view = FALSE]

\* PoiMarker.set_position, set_name, set_radius; ROI.setSize as the GUI calls it
set_position(m, position) == [m EXCEPT !.position = position]
\* A slip: set_name that leaves _poi_name as it was.
set_name_label_only(m, name) == m
set_name(m, name) == [m EXCEPT !.poi_name = name]
set_radius(m, s) == [m EXCEPT !.size = SizeDiv(s)]
setSize(m, s) == [m EXCEPT !.size = SizeMul(s)]

\* A slip: select that forgets the flag.
select_pen_only(m) ==
    [m EXCEPT !.pen = select_pen, !.label_color = select_pen.color]

\* PoiMarker.select / deselect
select(m) ==
    [m EXCEPT !.selected = TRUE, !.pen = select_pen, !.label_color = select_pen.color]

deselect(m) ==
    [m EXCEPT !.selected = FALSE, !.pen = default_pen, !.label_color = default_pen.color]

(***************************************************************************)
(* The marker collection self._markers: a dict, kept as the sequence of    *)
(* its (key, marker) entries in insertion order, which is the order a      *)
(* loop over the dict visits them in.                                      *)
(***************************************************************************)
Keys(ms) == {ms[i].key : i \in 1..Len(ms)}
IndexOf(ms, k) == CHOOSE i \in 1..Len(ms) : ms[i].key = k
Get(ms, k) == ms[IndexOf(ms, k)].marker

\* d[k] = m: in place when k is a key, appended otherwise
Put(ms, k, m) ==
    IF k \in Keys(ms)
    THEN [ms EXCEPT ![IndexOf(ms, k)] = [key |-> k, marker |-> m]]
    ELSE Append(ms, [key |-> k, marker |-> m])

\* del d[k] / d.pop(k), for a key of d
Remove(ms, k) ==
    LET i == IndexOf(ms, k) IN SubSeq(ms, 1, i - 1) \o SubSeq(ms, i + 1, Len(ms))

(***************************************************************************)
(* QComboBox (active_poi_ComboBox, not editable): items and current index. *)
(***************************************************************************)
\* QComboBox.currentText(): empty when nothing is current
currentText(items, index) == IF index = -1 THEN NoName ELSE items[index + 1]

\* QComboBox.findText(text): -1 when no item has the text
findText(items, text) ==
    IF \E i \in 1..Len(items) : items[i] = text
    THEN (CHOOSE i \in 1..Len(items) : items[i] = text) - 1
    ELSE -1

\* QComboBox.clear() followed by addItems(names): the first item inserted into
\* an empty combo box becomes the current one.
IndexAfterRefill(names) == IF Len(names) = 0 THEN -1 ELSE 0

\* QComboBox.setCurrentText(text) of a non-editable combo box: selects the item
\* with that text, and does nothing when there is none.
setCurrentText(items, index, text) ==
    IF findText(items, text) > -1 THEN findText(items, text) ELSE index

\* natural_sort over a set of names
RECURSIVE natural_sort(_)
natural_sort(names) ==
    IF names = {} THEN <<>>
    ELSE LET least == CHOOSE n \in names :
                          \A m \in names : NameNumber(n) <= NameNumber(m)
         IN <<least>> \o natural_sort(names \ {least})

\* All orders in which a list built from a set may hold its elements:
\* list(set) of strings has no fixed order.
RECURSIVE Orders(_)
Orders(S) ==
    IF S = {} THEN {<<>>}
    ELSE UNION {{<<x>> \o t : t \in Orders(S \ {x})} : x \in S}

(***************************************************************************)
(* The POI handlers of PoiManagerGui, as functions of the widget state     *)
(*   w = [markers, orphans, items, index, coords, created, log, raised]    *)
(* markers: self._markers; orphans: markers no longer in self._markers     *)
(* that are still items of the view or still connected; items, index: the  *)
(* active-POI combo box; coords: the position poi_coords_label shows;      *)
(* created: keys of the markers the handler constructed; log: the errors   *)
(* it logged; raised: the exception that ended it, "" if it returned.      *)
(* L = [pois, active, size, later] is what the backend answers when asked: *)
(* the handlers read optimise_xy_size with no lock while the backend's      *)
(* thread may set it, so L.size is what the handler's first read returns    *)
(* and L.later what its later reads return, one per marker it constructs.   *)
(***************************************************************************)
Raise(w, exc) == [w EXCEPT !.raised = exc]

\* optimise_xy_size as _add_poi_marker reads it (913), and L after that read
RadiusRead(L) == IF Len(L.later) = 0 THEN L.size ELSE Head(L.later)
AfterRadiusRead(L) == IF Len(L.later) = 0 THEN L ELSE [L EXCEPT !.later = Tail(@)]

\* PoiManagerGui._add_poi_marker(name, position)
_add_poi_marker(w, name, position, L) ==
    IF name = NoName THEN w
    ELSE IF name \in Keys(w.markers)
    THEN [w EXCEPT !.log = @ \cup {"POI marker already present"}]
    ELSE LET marker == PoiMarker(Proj2(position), RadiusRead(L), name)
             added == add_to_view_widget(marker)
             connected == [added EXCEPT !.conn = @ + 1]
         IN [w EXCEPT !.markers = Put(@, name, connected),
                      !.created = @ \cup {name}]

\* A slip: the marker dropped from the dict but left in the view and connected.
_remove_poi_marker_dict_only(w, name) ==
    IF name \notin Keys(w.markers) THEN w
    ELSE [w EXCEPT !.markers = Remove(@, name),
                   !.orphans = @ \cup {Get(w.markers, name)}]

\* PoiManagerGui._remove_poi_marker(name); disconnect() of a signal that has
\* no connection raises RuntimeError.
_remove_poi_marker(w, name) ==
    IF name \notin Keys(w.markers) THEN w
    ELSE LET detached == delete_from_view_widget(Get(w.markers, name)) IN
         IF detached.conn = 0
         THEN Raise([w EXCEPT !.markers = Put(@, name, detached)], "RuntimeError")
         ELSE [w EXCEPT !.markers = Remove(@, name)]

\* The combo box part of update_poi (old_name != new_name)
RebuildComboBox(w, old_name, new_name, L) ==
    LET text_active_poi == currentText(w.items, w.index)
        poi_names == natural_sort(DOMAIN L.pois)
        refilled == IndexAfterRefill(poi_names)
    IN [w EXCEPT !.items = poi_names,
                 !.index = IF text_active_poi = old_name
                           THEN setCurrentText(poi_names, refilled, new_name)
                           ELSE setCurrentText(poi_names, refilled, text_active_poi)]

\* The renamed-and/or-moved branch of update_poi
RenameMarker(w, old_name, new_name, position, L) ==
    IF old_name \notin Keys(w.markers) THEN Raise(w, "KeyError")
    ELSE LET renamed == set_name(Get(w.markers, old_name), new_name)
             popped == Remove(w.markers, old_name)
             displaced == IF new_name \in Keys(popped)
                          THEN {Get(popped, new_name)} ELSE {}
             moved == set_position(setSize(renamed, L.size), Proj2(position))
         IN [w EXCEPT !.markers = Put(popped, new_name, moved),
                      !.orphans = @ \cup displaced]

\* The end of update_poi: the marker of the combo box's text is selected
SelectShown(w) ==
    LET active_poi == currentText(w.items, w.index) IN
    IF active_poi = NoName THEN w
    ELSE IF active_poi \notin Keys(w.markers) THEN Raise(w, "KeyError")
    ELSE [w EXCEPT !.markers = Put(@, active_poi, select(Get(@, active_poi)))]

\* PoiManagerGui.update_poi(old_name, new_name, position)
update_poi(w, old_name, new_name, position, L) ==
    LET w1 == IF old_name # new_name
              THEN RebuildComboBox(w, old_name, new_name, L) ELSE w
        w2 == IF old_name = NoName THEN _add_poi_marker(w1, new_name, position, L)
              ELSE IF new_name = NoName THEN _remove_poi_marker(w1, old_name)
              ELSE RenameMarker(w1, old_name, new_name, position, L)
    IN IF w2.raised # "" THEN w2 ELSE SelectShown(w2)

\* The loop of update_active_poi: the first selected marker is deselected
DeselectFirst(ms) ==
    IF \E i \in 1..Len(ms) : ms[i].marker.selected
    THEN LET i == CHOOSE k \in 1..Len(ms) :
                      /\ ms[k].marker.selected
                      /\ \A j \in 1..(k - 1) : ~ms[j].marker.selected
         IN [ms EXCEPT ![i].marker = deselect(@)]
    ELSE ms

\* PoiManagerGui.update_active_poi(name); get_poi_position of a name the
\* backend does not hold raises KeyError.
update_active_poi(w, name, L) ==
    LET w1 == [w EXCEPT !.markers = DeselectFirst(@),
                        !.index = IF name = NoName THEN -1
                                  ELSE setCurrentText(w.items, w.index, name)]
    IN IF name # NoName /\ name \notin DOMAIN L.pois THEN Raise(w1, "KeyError")
       ELSE LET w2 == [w1 EXCEPT !.coords = IF name # NoName THEN L.pois[name]
                                             ELSE Zeros3]
            IN IF name \in Keys(w2.markers)
               THEN [w2 EXCEPT !.markers =
                        Put(@, name, select(set_radius(Get(@, name), L.size)))]
               ELSE w2

\* for name in names_to_delete: self._remove_poi_marker(name)
RECURSIVE RemoveAll(_, _)
RemoveAll(w, names) ==
    IF names = <<>> \/ w.raised # "" THEN w
    ELSE RemoveAll(_remove_poi_marker(w, Head(names)), Tail(names))

\* for name in names_to_add: self._add_poi_marker(name, poi_dict[name])
RECURSIVE AddAll(_, _, _, _)
AddAll(w, names, poi_dict, L) ==
    IF names = <<>> THEN w
    ELSE LET name == Head(names)
             constructs == name # NoName /\ name \notin Keys(w.markers)
         IN AddAll(_add_poi_marker(w, name, poi_dict[name], L), Tail(names), poi_dict,
                   IF constructs THEN AfterRadiusRead(L) ELSE L)

\* for name, marker in self._markers.items(): setSize, set_position
UpdateRemaining(ms, poi_dict, L) ==
    [i \in 1..Len(ms) |->
        [key |-> ms[i].key,
         marker |-> set_position(setSize(ms[i].marker, L.size), poi_dict[ms[i].key])]]

\* A slip: reconciliation that recreates the markers that stay.
_update_pois_recreating(w, poi_dict, L, del_order, add_order) ==
    LET kept == [w EXCEPT !.markers = <<>>]
        again == AddAll(kept, natural_sort(DOMAIN poi_dict), poi_dict, L)
    IN [again EXCEPT !.items = natural_sort(DOMAIN poi_dict), !.index = -1]

\* A slip: reconciliation that never removes a marker.
_update_pois_keeping(w, poi_dict, L, del_order, add_order) ==
    LET poi_names == natural_sort(DOMAIN poi_dict)
        added == AddAll(w, add_order, poi_dict, L)
    IN [added EXCEPT !.items = poi_names, !.index = -1]

\* PoiManagerGui._update_pois(poi_dict); del_order and add_order are the orders
\* of the lists names_to_delete and names_to_add.
_update_pois(w, poi_dict, L, del_order, add_order) ==
    LET poi_names == natural_sort(DOMAIN poi_dict)
        w1 == [w EXCEPT !.items = poi_names, !.index = IndexAfterRefill(poi_names)]
        w2 == RemoveAll(w1, del_order)
    IN IF w2.raised # "" THEN w2
       ELSE LET w3 == [w2 EXCEPT !.markers = UpdateRemaining(@, poi_dict, L)]
                w4 == AddAll(w3, add_order, poi_dict, L)
                active_poi == L.active
            IN IF active_poi \in DOMAIN poi_dict
               THEN [w4 EXCEPT
                       !.index = setCurrentText(w4.items, w4.index, active_poi),
                       !.markers = Put(@, active_poi, select(Get(@, active_poi))),
                       !.coords = poi_dict[active_poi]]
               ELSE [w4 EXCEPT !.index = -1]

\* The lists _update_pois may compute for a marker collection and a mapping
DelOrders(w, poi_dict) == Orders(Keys(w.markers) \ DOMAIN poi_dict)
AddOrders(w, poi_dict) == Orders(DOMAIN poi_dict \ Keys(w.markers))

(***************************************************************************)
(* Signals and their connections.  A signal is named as the code names it; *)
(* conn[signal] counts its connections.                                    *)
(***************************************************************************)
\* __connect_update_signals_from_logic: signals of the backend
ConnectedUpdateSignals ==
    <<"sigOptimizeTimerUpdated", "sigPoiUpdated", "sigActivePoiUpdated",
      "sigRoiUpdated", "sigOptimizeStateUpdated", "sigThresholdUpdated",
      "sigDiameterUpdated">>

\* __disconnect_update_signals_from_logic
DisconnectedUpdateSignals ==
    <<"sigOptimizeTimerUpdated", "sigPoiUpdated", "sigActivePoiUpdated",
      "sigRoiUpdated", "sigOptimizeStateUpdated">>

\* __connect_control_signals_to_logic: signals of the window's widgets and of
\* the GUI module, connected to the backend's commands
ConnectedControlSignals ==
    <<"new_poi_Action.triggered", "auto_pois_PushButton.clicked",
      "del_all_pois_PushButton.clicked", "goto_poi_Action.triggered",
      "new_roi_Action.triggered", "refind_poi_Action.triggered",
      "get_confocal_image_PushButton.clicked", "set_poi_PushButton.clicked",
      "delete_last_pos_Button.clicked", "manual_update_poi_PushButton.clicked",
      "move_poi_PushButton.clicked", "delete_poi_PushButton.clicked",
      "active_poi_ComboBox.activated", "goto_poi_after_update_checkBox.stateChanged",
      "track_poi_Action.triggered", "sigTrackPeriodChanged",
      "sigPoiThresholdChanged", "sigPoiDiameterChanged", "sigRoiNameChanged",
      "sigPoiNameChanged", "sigPoiNameTagChanged", "sigAddPoiByClick">>

\* __disconnect_control_signals_to_logic, before its loop over the markers
DisconnectedControlSignals ==
    <<"new_poi_Action.triggered", "goto_poi_Action.triggered",
      "new_roi_Action.triggered", "refind_poi_Action.triggered",
      "get_confocal_image_PushButton.clicked", "set_poi_PushButton.clicked",
      "delete_last_pos_Button.clicked", "manual_update_poi_PushButton.clicked",
      "move_poi_PushButton.clicked", "delete_poi_PushButton.clicked",
      "active_poi_ComboBox.activated", "goto_poi_after_update_checkBox.stateChanged",
      "track_poi_Action.triggered", "sigTrackPeriodChanged",
      "sigPoiThresholdChanged", "sigPoiDiameterChanged", "sigRoiNameChanged",
      "sigPoiNameChanged", "sigPoiNameTagChanged", "sigAddPoiByClick">>

\* A slip: the threshold box listened to through valueChanged, which the box
\* emits whenever its value changes, also when code sets it.
ConnectedInternalSignalsOnChange ==
    <<"track_period_SpinBox.editingFinished",
      "poi_threshold_doubleSpinBox.valueChanged",
      "poi_diameter_doubleSpinBox.editingFinished",
      "roi_name_LineEdit.editingFinished", "poi_name_LineEdit.returnPressed",
      "poi_nametag_LineEdit.editingFinished", "save_roi_Action.triggered",
      "load_roi_Action.triggered", "blink_correction_view_Action.triggered",
      "poi_selector_Action.toggled", "restore_default_view_Action.triggered",
      "roi_map_view_Action.triggered", "poi_editor_view_Action.triggered",
      "poi_tracker_view_Action.triggered", "auto_pois_view_Action.triggered",
      "auto_pois_view_Action.triggered", "sample_shift_view_Action.triggered",
      "roi_management_view_Action.triggered", "poi_tools_view_Action.triggered">>

\* __connect_internal_signals: widgets of the window to the GUI's own slots
\* (auto_pois_view_Action.triggered is connected twice)
ConnectedInternalSignals ==
    <<"track_period_SpinBox.editingFinished",
      "poi_threshold_doubleSpinBox.editingFinished",
      "poi_diameter_doubleSpinBox.editingFinished",
      "roi_name_LineEdit.editingFinished", "poi_name_LineEdit.returnPressed",
      "poi_nametag_LineEdit.editingFinished", "save_roi_Action.triggered",
      "load_roi_Action.triggered", "blink_correction_view_Action.triggered",
      "poi_selector_Action.toggled", "restore_default_view_Action.triggered",
      "roi_map_view_Action.triggered", "poi_editor_view_Action.triggered",
      "poi_tracker_view_Action.triggered", "auto_pois_view_Action.triggered",
      "auto_pois_view_Action.triggered", "sample_shift_view_Action.triggered",
      "roi_management_view_Action.triggered", "poi_tools_view_Action.triggered">>

\* __disconnect_internal_signals
DisconnectedInternalSignals ==
    <<"track_period_SpinBox.editingFinished",
      "roi_name_LineEdit.editingFinished", "poi_name_LineEdit.returnPressed",
      "poi_nametag_LineEdit.editingFinished", "save_roi_Action.triggered",
      "load_roi_Action.triggered", "blink_correction_view_Action.triggered",
      "poi_selector_Action.toggled", "restore_default_view_Action.triggered",
      "roi_map_view_Action.triggered", "poi_editor_view_Action.triggered",
      "poi_tracker_view_Action.triggered", "auto_pois_view_Action.triggered",
      "sample_shift_view_Action.triggered",
      "roi_management_view_Action.triggered", "poi_tools_view_Action.triggered">>

\* The click signal of the scan image, connected by toggle_poi_selector
MouseClicked == "roi_image.sigMouseClicked"

Range(seq) == {seq[i] : i \in 1..Len(seq)}

\* Signals of the backend object and of the GUI module object: both outlive a
\* window.  Every other signal belongs to a widget of the window on_activate
\* builds, and starts without connections in each new window.
BackendSignals == Range(ConnectedUpdateSignals)
ModuleSignals ==
    {"sigTrackPeriodChanged", "sigPoiThresholdChanged", "sigPoiDiameterChanged",
     "sigRoiNameChanged", "sigPoiNameChanged", "sigPoiNameTagChanged",
     "sigAddPoiByClick"}
Signals ==
    Range(ConnectedUpdateSignals) \cup Range(ConnectedControlSignals)
        \cup Range(ConnectedInternalSignals) \cup {MouseClicked}
WindowSignals == Signals \ (BackendSignals \cup ModuleSignals)

\* signal.connect(slot), once per entry of the list
RECURSIVE ConnectAll(_, _)
ConnectAll(conn, signals) ==
    IF signals = <<>> THEN conn
    ELSE ConnectAll([conn EXCEPT ![Head(signals)] = @ + 1], Tail(signals))

\* signal.disconnect() for each entry of the list in turn: it removes every
\* connection of the signal and raises RuntimeError when there is none, which
\* ends the caller.
RECURSIVE DisconnectAll(_, _)
DisconnectAll(c, signals) ==
    IF signals = <<>> \/ c.raised # "" THEN c
    ELSE IF c.conn[Head(signals)] = 0 THEN [c EXCEPT !.raised = "RuntimeError"]
    ELSE DisconnectAll([c EXCEPT !.conn[Head(signals)] = 0], Tail(signals))

\* for marker in self._markers.values(): marker.sigPoiSelected.disconnect()
RECURSIVE DisconnectMarkers(_, _)
DisconnectMarkers(ms, i) ==
    IF i > Len(ms) THEN [markers |-> ms, raised |-> ""]
    ELSE IF ms[i].marker.conn = 0 THEN [markers |-> ms, raised |-> "RuntimeError"]
    ELSE DisconnectMarkers([ms EXCEPT ![i].marker.conn = 0], i + 1)

(***************************************************************************)
(* The window: checkable actions, panels, the POI-placement mode.          *)
(* The GUI state g is the widget state w of the POI handlers extended by   *)
(*   conn, checked, visible, floating, poi_selector_active, cursor, sent   *)
(* sent: the backend commands the handler issued.                          *)
(***************************************************************************)
Docks ==
    {"roi_map_dockWidget", "auto_pois_dockWidget", "poi_editor_dockWidget",
     "poi_tracker_dockWidget", "sample_shift_dockWidget"}
Panels ==
    Docks \cup {"roi_image", "roi_management_ToolBar", "poi_ToolBar",
                "auto_find_POIs_Action"}

\* The view actions restore_default_view forces, in its order
DockViewActions ==
    <<"roi_map_view_Action", "poi_editor_view_Action", "poi_tracker_view_Action",
      "auto_pois_view_Action", "sample_shift_view_Action">>
ToolBarViewActions == {"roi_management_view_Action", "poi_tools_view_Action"}
ViewActions == Range(DockViewActions) \cup ToolBarViewActions
CheckableActions == ViewActions \cup {"poi_selector_Action"}

\* What the slots connected to a view action's triggered signal show or hide
\* (toggle_roi_map and the lambdas of __connect_internal_signals)
ViewTargets(a) ==
    CASE a = "roi_map_view_Action" -> {"roi_map_dockWidget", "roi_image"}
      [] a = "poi_editor_view_Action" -> {"poi_editor_dockWidget"}
      [] a = "poi_tracker_view_Action" -> {"poi_tracker_dockWidget"}
      [] a = "auto_pois_view_Action" -> {"auto_pois_dockWidget", "auto_find_POIs_Action"}
      [] a = "sample_shift_view_Action" -> {"sample_shift_dockWidget"}
      [] a = "roi_management_view_Action" -> {"roi_management_ToolBar"}
      [] a = "poi_tools_view_Action" -> {"poi_ToolBar"}

TriggeredOf(a) ==
    CASE a = "roi_map_view_Action" -> "roi_map_view_Action.triggered"
      [] a = "poi_editor_view_Action" -> "poi_editor_view_Action.triggered"
      [] a = "poi_tracker_view_Action" -> "poi_tracker_view_Action.triggered"
      [] a = "auto_pois_view_Action" -> "auto_pois_view_Action.triggered"
      [] a = "sample_shift_view_Action" -> "sample_shift_view_Action.triggered"
      [] a = "roi_management_view_Action" -> "roi_management_view_Action.triggered"
      [] a = "poi_tools_view_Action" -> "poi_tools_view_Action.triggered"

\* QAction.trigger() of a checkable view action: the check state flips, then
\* triggered is emitted and the connected slots set their targets' visibility
\* to the new check state.
TriggerViewAction(g, a) ==
    LET now == ~g.checked[a] IN
    [g EXCEPT !.checked[a] = now,
              !.visible = IF g.conn[TriggeredOf(a)] > 0
                          THEN [p \in Panels |->
                                   IF p \in ViewTargets(a) THEN now ELSE g.visible[p]]
                          ELSE g.visible]

\* if not action.isChecked(): action.trigger(), for the five dock actions
RECURSIVE ForceChecked(_, _)
ForceChecked(g, actions) ==
    IF actions = <<>> THEN g
    ELSE ForceChecked(IF g.checked[Head(actions)] THEN g
                      ELSE TriggerViewAction(g, Head(actions)),
                      Tail(actions))

\* A slip: the docks left as the layout file has them.
restore_default_view_actions_only(g) == ForceChecked(g, DockViewActions)

\* PoiManagerGui.restore_default_view()
restore_default_view(g) ==
    LET docked == [g EXCEPT
                     !.floating = [d \in Docks |-> FALSE],
                     !.visible = [p \in Panels |->
                                     IF p \in Docks \cup {"roi_image"} THEN TRUE
                                     ELSE g.visible[p]]]
    IN ForceChecked(docked, DockViewActions)

\* A slip: the click listener connected whenever the mode is switched on,
\* without looking at the flag.
toggle_poi_selector_unguarded(g, is_active) ==
    LET g1 == [g EXCEPT !.checked["poi_selector_Action"] = is_active] IN
    IF is_active
    THEN [g1 EXCEPT !.conn[MouseClicked] = @ + 1, !.cursor = "CrossCursor",
                    !.poi_selector_active = TRUE]
    ELSE [g1 EXCEPT !.cursor = "ArrowCursor", !.poi_selector_active = FALSE]

\* PoiManagerGui.toggle_poi_selector(is_active): before the first on_activate
\* self._mw is None and the read of its poi_selector_Action raises; the window
\* on_deactivate closed still has its widgets.
toggle_poi_selector(g, is_active) ==
    LET g1 == [g EXCEPT !.checked["poi_selector_Action"] = is_active] IN
    IF g.mw = "none" THEN Raise(g, "AttributeError")
    ELSE IF is_active # g.poi_selector_active
    THEN IF is_active
         THEN [g1 EXCEPT !.conn[MouseClicked] = @ + 1, !.cursor = "CrossCursor",
                         !.poi_selector_active = TRUE]
         ELSE IF g1.conn[MouseClicked] = 0 THEN Raise(g1, "RuntimeError")
              ELSE [g1 EXCEPT !.conn[MouseClicked] = 0, !.cursor = "ArrowCursor",
                              !.poi_selector_active = FALSE]
    ELSE [g1 EXCEPT !.poi_selector_active = is_active]

\* k copies of x, one after the other
RECURSIVE Repeat(_, _)
Repeat(x, k) == IF k = 0 THEN <<>> ELSE <<x>> \o Repeat(x, k - 1)

\* A slot run once per connection of the signal that reached it
RECURSIVE PerConnection(_, _, _)
PerConnection(Slot(_), g, k) ==
    IF k = 0 \/ g.raised # "" THEN g ELSE PerConnection(Slot, Slot(g), k - 1)

\* A slip: the click handler ignoring which button was pressed.
create_poi_from_click_any_button(g, pos, button, roi_origin) ==
    LET new_pos == <<pos[1], pos[2], roi_origin[3]>> IN
    [g EXCEPT !.sent = @ \o Repeat([cmd |-> "add_poi", arg |-> new_pos],
                                   g.conn["sigAddPoiByClick"])]

\* PoiManagerGui.create_poi_from_click(pos, button): sigAddPoiByClick reaches
\* the backend's add_poi once per connection of the signal.
create_poi_from_click(g, pos, button, roi_origin) ==
    IF button # "LeftButton" THEN g
    ELSE LET new_pos == <<pos[1], pos[2], roi_origin[3]>> IN
         [g EXCEPT !.sent = @ \o Repeat([cmd |-> "add_poi", arg |-> new_pos],
                                        g.conn["sigAddPoiByClick"])]

\* PoiMarker.__init__: self.setAcceptedMouseButtons(QtCore.Qt.LeftButton)
AcceptedMouseButtons == {"LeftButton"}

\* PoiMarker._notify_clicked_poi_name(): sigPoiSelected carries the marker's
\* name to the backend's set_active_poi, once per connection of the signal.
_notify_clicked_poi_name(g, m) ==
    [g EXCEPT !.sent = @ \o Repeat([cmd |-> "set_active_poi", arg |-> <<m.poi_name>>],
                                   m.conn)]

\* A click at pos on the marker m, which lies above the scan image: the
\* click goes to the marker first, and a marker that accepts the button
\* consumes it (sigClicked reaches _notify_clicked_poi_name).  A click the
\* marker does not accept goes on to the image; a consumed one reaches the
\* listeners of the image's sigMouseClicked when the image widget forwards
\* it (the widget is not part of this repository; the event it hands over
\* carries the accepted flag).  create_poi_from_click reads the event's
\* button only.
ClickOnMarker(g, m, pos, button, forwarded, roi_origin) ==
    LET consumed == button \in AcceptedMouseButtons
        g1 == IF consumed THEN _notify_clicked_poi_name(g, m) ELSE g
    IN IF consumed /\ ~forwarded THEN g1
       ELSE PerConnection(LAMBDA x : create_poi_from_click(x, pos, button, roi_origin),
                          g1, g1.conn[MouseClicked])

\* self._poi_manager_logic().cmd(arg): the handler calls the backend's method
\* itself and goes on when it has returned.
CallLogic(g, cmd, arg) ==
    [g EXCEPT !.sent = Append(@, [cmd |-> cmd, arg |-> arg]),
              !.called = Append(@, cmd)]

\* The control signals connected without a connection type (482-485); every
\* other one is connected with QtCore.Qt.QueuedConnection.
AutoConnected == {"sigPoiThresholdChanged", "sigPoiDiameterChanged"}

\* The backend object lives on a thread of its own, so a connection without
\* a type delivers to it as a queued one does.
LogicOnOwnThread == TRUE
Delivery(sig) ==
    IF sig \in AutoConnected /\ ~LogicOnOwnThread THEN "direct" ELSE "queued"

\* sig.emit(arg), sig connected to the backend's method cmd
EmitCommand(g, sig, cmd, arg) ==
    LET k == g.conn[sig]
        g1 == [g EXCEPT !.sent = @ \o Repeat([cmd |-> cmd, arg |-> arg], k)]
    IN IF Delivery(sig) = "direct"
       THEN [g1 EXCEPT !.called = @ \o Repeat(cmd, k)]
       ELSE g1

\* PoiManagerGui.poi_threshold_changed()
poi_threshold_changed(g) ==
    EmitCommand(g, "sigPoiThresholdChanged", "set_poi_threshold",
                <<g.display.poi_threshold>>)

\* PoiManagerGui.poi_diameter_changed()
poi_diameter_changed(g) ==
    EmitCommand(g, "sigPoiDiameterChanged", "set_poi_diameter",
                <<g.display.poi_diameter>>)

\* PoiManagerGui.roi_name_changed()
roi_name_changed(g) ==
    EmitCommand(g, "sigRoiNameChanged", "rename_roi", <<g.display.roi_name>>)

\* PoiManagerGui.track_period_changed()
track_period_changed(g) ==
    EmitCommand(g, "sigTrackPeriodChanged", "set_refocus_period",
                <<g.display.track_period>>)

\* PoiManagerGui.poi_nametag_changed()
poi_nametag_changed(g) ==
    EmitCommand(g, "sigPoiNameTagChanged", "set_poi_nametag",
                <<g.display.poi_nametag>>)

\* A slip: the rename sent whatever the field holds.
poi_name_changed_unconditional(g) ==
    LET new_name == g.display.poi_name
        g1 == EmitCommand(g, "sigPoiNameChanged", "rename_poi", <<new_name>>)
    IN [g1 EXCEPT !.display.poi_name = ""]

\* PoiManagerGui.poi_name_changed()
poi_name_changed(g) ==
    LET new_name == g.display.poi_name IN
    IF currentText(g.items, g.index) = new_name \/ new_name = "" THEN g
    ELSE LET g1 == EmitCommand(g, "sigPoiNameChanged", "rename_poi", <<new_name>>)
         IN [g1 EXCEPT !.display.poi_name = ""]

\* PoiManagerGui.show(): before the first on_activate self._mw is None, which
\* QMainWindow.show (called on the class) refuses with TypeError; a window that
\* on_deactivate closed is shown again, as it was closed.
show(g) ==
    IF g.mw = "none" THEN Raise(g, "TypeError")
    ELSE IF g.mw = "closed" THEN [g EXCEPT !.mw = "shown", !.reshown = TRUE]
    ELSE g

\* PoiManagerGui.toggle_blink_correction(is_active)
toggle_blink_correction(g, is_active) ==
    [g EXCEPT !.display.blink_correction_checked = FALSE,
              !.log = @ \cup {"Blink correction is currently not implemented."}]

\* PoiManagerGui.save_roi()
save_roi(g) ==
    CallLogic(CallLogic(g, "rename_roi", <<g.display.roi_name>>), "save_roi", <<>>)

\* PoiManagerGui.load_roi(); this_file is what the file dialog returns, ""
\* when it is cancelled
load_roi(g, this_file) ==
    IF this_file # "" THEN CallLogic(g, "load_roi", <<this_file>>) ELSE g

\* A slip: the backend commanded whatever the prompt's answer.
delete_all_pois_clicked_unasked(g, result) ==
    [g EXCEPT !.sent = Append(@, [cmd |-> "delete_all_pois", arg |-> <<>>])]

\* PoiManagerGui.delete_all_pois_clicked() from the return of the prompt on;
\* result is the prompt's answer
delete_all_pois_clicked(g, result) ==
    IF result = "Yes" THEN CallLogic(g, "delete_all_pois", <<>>) ELSE g

\* A modal dialog (QMessageBox.question, QFileDialog.getOpenFileName): it runs
\* an event loop of its own on the GUI thread, in which the handler that opened
\* it waits for the answer while queued events reach their slots; dialogs
\* opened meanwhile return first.  pending counts the slots of the same
\* emission that run when this one has returned.
Dialog(kind, pending) == [kind |-> kind, pending |-> pending]
Opened(g, dialog) == [g EXCEPT !.dialogs = Append(@, dialog)]
Innermost(g) == g.dialogs[Len(g.dialogs)]
Returned(g) ==
    LET closed == [g EXCEPT !.dialogs = SubSeq(@, 1, Len(@) - 1)] IN
    IF Innermost(g).pending = 0 THEN closed
    ELSE Opened(closed, Dialog(Innermost(g).kind, Innermost(g).pending - 1))

(***************************************************************************)
(* The other displays of the window: the scan image, the ROI history plot, *)
(* the refocus timer, the ROI name, the POI name-tag, the threshold and    *)
(* the diameter.  g.display holds what each of them shows.                 *)
(***************************************************************************)
\* Qt: the signals a widget emits when code, not the user, sets what it
\* shows (setValue, setText, setChecked, setEnabled, clear, addItems,
\* setCurrentText, setCurrentIndex); editingFinished, returnPressed,
\* triggered, activated and clicked are emitted for the user's input only.
ChangeSignals(widget) ==
    CASE widget = "track_period_SpinBox" -> {"track_period_SpinBox.valueChanged"}
      [] widget = "track_poi_Action" ->
             {"track_poi_Action.toggled", "track_poi_Action.changed"}
      [] widget = "time_till_next_update_ProgressBar" ->
             {"time_till_next_update_ProgressBar.valueChanged"}
      [] widget = "refind_poi_Action" -> {"refind_poi_Action.changed"}
      [] widget = "roi_name_LineEdit" -> {"roi_name_LineEdit.textChanged"}
      [] widget = "poi_nametag_LineEdit" -> {"poi_nametag_LineEdit.textChanged"}
      [] widget = "poi_name_LineEdit" -> {"poi_name_LineEdit.textChanged"}
      [] widget = "poi_threshold_doubleSpinBox" ->
             {"poi_threshold_doubleSpinBox.valueChanged"}
      [] widget = "poi_diameter_doubleSpinBox" ->
             {"poi_diameter_doubleSpinBox.valueChanged"}

\* The slot the connect functions give the signals of a widget
InputHandler(g, widget) ==
    CASE widget = "track_period_SpinBox" -> track_period_changed(g)
      [] widget = "track_poi_Action" ->
             [g EXCEPT !.sent = Append(@, [cmd |-> "toggle_periodic_refocus",
                                           arg |-> <<g.display.track_poi_checked>>])]
      [] widget = "time_till_next_update_ProgressBar" -> g
      [] widget = "refind_poi_Action" ->
             [g EXCEPT !.sent = Append(@, [cmd |-> "optimise_poi_position",
                                           arg |-> <<>>])]
      [] widget = "roi_name_LineEdit" -> roi_name_changed(g)
      [] widget = "poi_nametag_LineEdit" -> poi_nametag_changed(g)
      [] widget = "poi_name_LineEdit" -> poi_name_changed(g)
      [] widget = "poi_threshold_doubleSpinBox" -> poi_threshold_changed(g)
      [] widget = "poi_diameter_doubleSpinBox" -> poi_diameter_changed(g)

\* The connections of the signals sigs, added up
RECURSIVE Listeners(_, _)
Listeners(conn_, sigs) ==
    IF sigs \cap Signals = {} THEN 0
    ELSE LET sig == CHOOSE x \in sigs \cap Signals : TRUE
         IN conn_[sig] + Listeners(conn_, sigs \ {sig})

\* g after a setter of widget has been called by code, g holding the new
\* value already: between blockSignals(True) and blockSignals(False), or
\* when the value is the one shown before, nothing is emitted; otherwise the
\* widget's change signals are, and the slots connected to them run before
\* the setter returns.
SetValue(g, widget, blocked, changed) ==
    IF blocked \/ ~changed THEN g
    ELSE PerConnection(LAMBDA x : InputHandler(x, widget), g,
                       Listeners(g.conn, ChangeSignals(widget)))

\* Python's None
NoneValue == "None"

\* A history array of shape (Len(rows), width); a row is <<time, x, y, z>>.
History(width, rows) == [width |-> width, rows |-> rows]

\* None where a history array is expected
NoHistory == [none |-> TRUE]

\* history[:, c] (c counted from 1 here)
Column(rows, c) == [i \in 1..Len(rows) |-> rows[i][c]]

\* np.max of a non-empty one-dimensional array
RECURSIVE ArrayMax(_)
ArrayMax(a) ==
    IF Len(a) = 1 THEN a[1]
    ELSE LET m == ArrayMax(Tail(a)) IN IF a[1] > m THEN a[1] ELSE m

\* t / den: the quotient is kept as the pair it is computed from; den = 1
\* is the time stamp itself
Scaled(t, den) == [num |-> t, den |-> den]

\* What the widgets show when no window exists, and in a window just built
\* from its layout file; has_focus: track_period_SpinBox.hasFocus(), which
\* is false until the event loop has activated the window.
Blank(text) ==
    [roi_name |-> text, poi_nametag |-> text, poi_threshold |-> -1,
     poi_diameter |-> -1, scan_image |-> text, scan_image_extent |-> text,
     history_unit |-> text, time_arr |-> <<>>, x_shift |-> <<>>,
     y_shift |-> <<>>, z_shift |-> <<>>, track_period |-> -1,
     track_poi_checked |-> FALSE, progress_max |-> -1, progress_value |-> -1,
     refind_enabled |-> TRUE, has_focus |-> FALSE, poi_name |-> "",
     blink_correction_checked |-> FALSE]
NoDisplay == Blank("none")
UiDisplay == Blank("ui")

\* A slip: the image set whatever it is, None included.
_update_scan_image_unguarded(g, scan_image, image_extent) ==
    [g EXCEPT !.display.scan_image = scan_image,
              !.display.scan_image_extent = image_extent]

\* PoiManagerGui._update_scan_image(scan_image, image_extent)
_update_scan_image(g, scan_image, image_extent) ==
    IF scan_image # NoneValue
    THEN [g EXCEPT !.display.scan_image = scan_image,
                   !.display.scan_image_extent = image_extent]
    ELSE g

\* PoiManagerGui.__init_roi_scan_image()
__init_roi_scan_image(g, L) ==
    _update_scan_image(g, L.roi.scan_image, L.roi.scan_image_extent)

\* A slip: the boundaries 300, 7200 and 172800 put in the smaller unit.
TimeUnitInclusive(max_time) ==
    IF max_time <= 300 THEN [units |-> "s", den |-> 1]
    ELSE IF max_time <= 7200 THEN [units |-> "min", den |-> 60]
    ELSE IF max_time <= 172800 THEN [units |-> "h", den |-> 3600]
    ELSE [units |-> "d", den |-> 86400]

\* The unit of the time axis and the divisor of the time stamps that
\* _update_roi_history chooses for the largest time stamp max_time
TimeUnit(max_time) ==
    IF max_time < 300 THEN [units |-> "s", den |-> 1]
    ELSE IF max_time < 7200 THEN [units |-> "min", den |-> 60]
    ELSE IF max_time < 172800 THEN [units |-> "h", den |-> 3600]
    ELSE [units |-> "d", den |-> 86400]

\* PoiManagerGui._update_roi_history(history): an array whose width is not 4
\* is logged and skipped; np.max raises ValueError for an array of no rows.
_update_roi_history(g, history, L) ==
    LET h == IF history = NoHistory THEN L.roi.history ELSE history IN
    IF h.width # 4
    THEN [g EXCEPT !.log = @ \cup {"ROI history must be an array of type float[][4]."}]
    ELSE IF Len(h.rows) = 0 THEN Raise(g, "ValueError")
    ELSE LET max_time == ArrayMax(Column(h.rows, 1))
             u == TimeUnit(max_time)
         IN [g EXCEPT
               !.display.history_unit = u.units,
               !.display.time_arr =
                   [i \in 1..Len(h.rows) |->
                       Scaled(h.rows[i][1], u.den)],
               !.display.x_shift = Column(h.rows, 2),
               !.display.y_shift = Column(h.rows, 3),
               !.display.z_shift = Column(h.rows, 4)]

\* PoiManagerGui.__init_roi_history_plot(): three curves through (0, 0), the
\* time axis in seconds, then the backend's history
__init_roi_history_plot(g, L) ==
    LET g1 == [g EXCEPT !.display.history_unit = "s",
                        !.display.time_arr = <<Scaled(0, 1)>>,
                        !.display.x_shift = <<0>>,
                        !.display.y_shift = <<0>>,
                        !.display.z_shift = <<0>>]
    IN _update_roi_history(g1, L.roi.history, L)

\* A slip: the period written into the box whether it has the focus or not.
update_refocus_timer_unfocused(g, is_active, period, time_until_refocus) ==
    [g EXCEPT !.display.track_period = period,
              !.display.track_poi_checked = is_active,
              !.display.progress_max = period,
              !.display.progress_value = time_until_refocus]

\* PoiManagerGui.update_refocus_timer(is_active, period, time_until_refocus)
update_refocus_timer(g, is_active, period, time_until_refocus) ==
    LET g1 == IF ~g.display.has_focus
              THEN SetValue([g EXCEPT !.display.track_period = period],
                            "track_period_SpinBox", TRUE,
                            g.display.track_period # period)
              ELSE g
        g2 == SetValue([g1 EXCEPT !.display.track_poi_checked = is_active],
                       "track_poi_Action", TRUE,
                       g1.display.track_poi_checked # is_active)
    IN SetValue([g2 EXCEPT !.display.progress_max = period,
                           !.display.progress_value = time_until_refocus],
                "time_till_next_update_ProgressBar", TRUE,
                g2.display.progress_value # time_until_refocus)

\* PoiManagerGui.update_refocus_state(is_active)
update_refocus_state(g, is_active) ==
    SetValue([g EXCEPT !.display.refind_enabled = ~is_active],
             "refind_poi_Action", FALSE, g.display.refind_enabled # ~is_active)

\* PoiManagerGui._update_roi_name(name)
_update_roi_name(g, name) ==
    SetValue([g EXCEPT !.display.roi_name = name], "roi_name_LineEdit", TRUE,
             g.display.roi_name # name)

\* PoiManagerGui._update_poi_nametag(tag)
_update_poi_nametag(g, tag) ==
    LET text == IF tag = NoneValue THEN "" ELSE tag IN
    SetValue([g EXCEPT !.display.poi_nametag = text], "poi_nametag_LineEdit",
             TRUE, g.display.poi_nametag # text)

\* PoiManagerGui._update_poi_threshold(threshold)
_update_poi_threshold(g, threshold) ==
    SetValue([g EXCEPT !.display.poi_threshold = threshold],
             "poi_threshold_doubleSpinBox", FALSE,
             g.display.poi_threshold # threshold)

\* PoiManagerGui._update_poi_diameter(diameter)
_update_poi_diameter(g, diameter) ==
    SetValue([g EXCEPT !.display.poi_diameter = diameter],
             "poi_diameter_doubleSpinBox", FALSE,
             g.display.poi_diameter # diameter)

\* A value that is no dict where a dict is expected
NotADict == [not_a_dict |-> TRUE]
IsDict(roi_dict) == roi_dict # NotADict

\* The ROI properties of a backend that has one history entry and is idle
Row(t) == <<t, 1, 2, 3>>
DefaultRoi ==
    [name |-> "roi", poi_nametag |-> "tag", poi_threshold |-> 1,
     poi_diameter |-> 1, scan_image |-> "image", scan_image_extent |-> "extent",
     history |-> History(4, <<Row(0)>>), refocus_period |-> 10,
     locked |-> FALSE]

\* PoiManagerGui.update_roi(roi_dict): roi_dict is a function from the keys
\* it holds, or a value that is no dict; del_order and add_order are the
\* orders of names_to_delete and names_to_add in _update_pois.
update_roi(g, roi_dict, L, del_order, add_order) ==
    IF ~IsDict(roi_dict)
    THEN [g EXCEPT !.log = @ \cup {"ROI parameters to update must be given in a single dictionary."}]
    ELSE LET has(k) == k \in DOMAIN roi_dict
             g1 == IF has("name") THEN _update_roi_name(g, roi_dict["name"]) ELSE g
             g2 == IF has("poi_nametag") THEN _update_poi_nametag(g1, roi_dict["poi_nametag"]) ELSE g1
             g3 == IF has("history") THEN _update_roi_history(g2, roi_dict["history"], L) ELSE g2
             g4 == IF g3.raised # "" THEN g3
                   ELSE IF has("scan_image") /\ has("scan_image_extent")
                   THEN _update_scan_image(g3, roi_dict["scan_image"], roi_dict["scan_image_extent"])
                   ELSE g3
         IN IF g4.raised # "" THEN g4
            ELSE IF has("pois")
            THEN _update_pois(g4, roi_dict["pois"], L, del_order, add_order)
            ELSE g4

\* PoiManagerMainWindow(): a new window, whose widgets' signals have no
\* connection, laid out as its layout file ui says (the check states of its
\* actions, its docks shown and docked or hidden and floating); its combo box
\* is empty, its plot widget holds no marker, the cursor is the arrow.
NewMainWindow(g, ui) ==
    [g EXCEPT
       !.conn = [sig \in Signals |-> IF sig \in WindowSignals THEN 0 ELSE g.conn[sig]],
       !.checked = ui.checked,
       !.visible = [p \in Panels |-> IF p \in Docks THEN ui.docked ELSE TRUE],
       !.floating = [d \in Docks |-> ~ui.docked],
       !.cursor = "ArrowCursor",
       !.items = <<>>,
       !.index = -1,
       !.coords = Zeros3,
       !.orphans = {},
       !.display = UiDisplay,
       !.mw = "shown",
       !.reshown = FALSE]

\* g after the step named step of on_activate or on_deactivate: g.trace lists
\* the steps in the order they ran.
Did(g, step) == [g EXCEPT !.trace = Append(@, step)]

\* The part of on_activate that fills the window from the backend, up to the
\* last display; an exception ends it where it is raised.
SeedDisplays(g, ui, L, add_order) ==
    LET g0 == [g EXCEPT !.markers = <<>>]
        g1 == NewMainWindow(g0, ui)
        g2 == restore_default_view(g1)
        g3 == Did(__init_roi_scan_image(g2, L), "__init_roi_scan_image")
        g4 == __init_roi_history_plot(g3, L)
    IN IF g4.raised # "" THEN g4
       ELSE LET g5 == Did(g4, "__init_roi_history_plot")
                g6 == Did(update_refocus_timer(g5, L.roi.locked, L.roi.refocus_period,
                                               L.roi.refocus_period),
                          "update_refocus_timer")
                g7 == _update_pois(g6, L.pois, L, <<>>, add_order)
            IN IF g7.raised # "" THEN g7
               ELSE LET g8 == Did(g7, "_update_pois")
                        g9 == Did(_update_roi_name(g8, L.roi.name), "_update_roi_name")
                        g10 == Did(_update_poi_nametag(g9, L.roi.poi_nametag),
                                   "_update_poi_nametag")
                        g11 == Did(_update_poi_threshold(g10, L.roi.poi_threshold),
                                   "_update_poi_threshold")
                    IN Did(_update_poi_diameter(g11, L.roi.poi_diameter),
                           "_update_poi_diameter")

\* The part of on_activate that connects the three groups of signals
ConnectSignals(g) ==
    LET g1 == Did([g EXCEPT !.conn = ConnectAll(@, ConnectedInternalSignals)],
                  "__connect_internal_signals")
        g2 == Did([g1 EXCEPT !.conn = ConnectAll(@, ConnectedUpdateSignals)],
                  "__connect_update_signals_from_logic")
    IN Did([g2 EXCEPT !.conn = ConnectAll(@, ConnectedControlSignals)],
           "__connect_control_signals_to_logic")

\* A slip: the signals connected before the window is filled.
on_activate_connecting_first(g, ui, L, add_order) ==
    LET g0 == [g EXCEPT !.markers = <<>>]
        g1 == ConnectSignals(NewMainWindow(g0, ui))
        seeded == SeedDisplays([g1 EXCEPT !.mw = g.mw], ui, L, add_order)
    IN [seeded EXCEPT !.conn = g1.conn, !.trace = g1.trace \o @]

\* PoiManagerGui.on_activate(); L is the backend's state, add_order the order
\* of names_to_add in _update_pois.
on_activate(g, ui, L, add_order) ==
    LET g1 == SeedDisplays(g, ui, L, add_order)
    IN IF g1.raised # "" THEN g1 ELSE ConnectSignals(g1)

\* PoiManagerGui.__disconnect_control_signals_to_logic()
DisconnectControlSignals(g) ==
    LET g1 == DisconnectAll(g, DisconnectedControlSignals) IN
    IF g1.raised # "" THEN g1
    ELSE LET r == DisconnectMarkers(g1.markers, 1) IN
         [g1 EXCEPT !.markers = r.markers, !.raised = r.raised]

\* A slip: deactivation that leaves the markers' click connections alone.
on_deactivate_keeping_markers(g) ==
    LET g1 == toggle_poi_selector(g, FALSE)
        g2 == DisconnectAll(g1, DisconnectedControlSignals)
        g3 == DisconnectAll(g2, DisconnectedUpdateSignals)
        g4 == DisconnectAll(g3, DisconnectedInternalSignals)
    IN IF g4.raised # "" THEN g4 ELSE [g4 EXCEPT !.mw = "closed"]

\* g after step(g), the step recorded unless an exception ended it or an
\* earlier step
Then(g, step(_), name) ==
    IF g.raised # "" THEN g
    ELSE LET g1 == step(g) IN IF g1.raised # "" THEN g1 ELSE Did(g1, name)

\* PoiManagerGui.on_deactivate(): an exception ends it where it is raised
on_deactivate(g) ==
    LET g1 == Then(g, LAMBDA x : toggle_poi_selector(x, FALSE), "toggle_poi_selector")
        g2 == Then(g1, DisconnectControlSignals, "__disconnect_control_signals_to_logic")
        g3 == Then(g2, LAMBDA x : DisconnectAll(x, DisconnectedUpdateSignals),
                   "__disconnect_update_signals_from_logic")
        g4 == Then(g3, LAMBDA x : DisconnectAll(x, DisconnectedInternalSignals),
                   "__disconnect_internal_signals")
    IN Then(g4, LAMBDA x : [x EXCEPT !.mw = "closed"], "close")

(***************************************************************************)
(* State                                                                   *)
(***************************************************************************)
VARIABLES
    mw,                   \* self._mw: "none", "shown" or "closed"
    reshown,              \* show() has shown the window again that on_deactivate closed
    markers,              \* self._markers
    orphans,              \* markers outside self._markers still in the view or connected
    items,                \* active_poi_ComboBox: its items
    index,                \* active_poi_ComboBox: its current index
    coords,               \* the position poi_coords_label shows
    conn,                 \* connections per signal
    checked,              \* check state per checkable action
    visible,              \* visibility per panel
    floating,             \* floating flag per dock
    poi_selector_active,  \* self.__poi_selector_active
    cursor,               \* cursor of the scan image
    display,              \* what the other widgets show
    dialogs,              \* the modal dialogs open on the GUI thread, the innermost last
    created,              \* keys of the markers the last handler constructed
    log,                  \* errors the last handler logged
    raised,               \* exception that ended the last handler, "" if none
    sent,                 \* backend commands the last handler issued
    called,               \* backend methods the last handler called itself
    trace,                \* the steps of the last on_activate or on_deactivate, in order
    last_event,           \* the event the last handler handled
    activations,          \* how often on_activate has run
    logic_pois,           \* backend: poi_positions, name -> position
    logic_active,         \* backend: active_poi, "" if none
    logic_size,           \* backend: optimise_xy_size
    logic_sizes,          \* backend: the values its optimise_xy_size is set to in this run
    logic_roi_origin,     \* backend: roi_origin
    logic_roi,            \* backend: the other ROI properties the GUI reads
    loads,                \* how many ROIs the backend has loaded
    queue                 \* notifications queued for the GUI thread

windowVars ==
    <<mw, reshown, markers, orphans, items, index, coords, conn, checked, visible,
      floating, poi_selector_active, cursor, display>>
guiVars == <<windowVars, dialogs>>
obsVars == <<created, log, raised, sent, called, trace, last_event, activations>>
logicVars ==
    <<logic_pois, logic_active, logic_size, logic_sizes, logic_roi_origin, logic_roi>>

\* The GUI state as the handlers take it: a handler starts with nothing
\* constructed, logged, raised or sent.
G ==
    [mw |-> mw, reshown |-> reshown, markers |-> markers, orphans |-> orphans, items |-> items,
     index |-> index, coords |-> coords, conn |-> conn, checked |-> checked,
     visible |-> visible, floating |-> floating,
     poi_selector_active |-> poi_selector_active, cursor |-> cursor,
     display |-> display, dialogs |-> dialogs,
     created |-> {}, log |-> {}, raised |-> "", sent |-> <<>>,
     called |-> <<>>, trace |-> <<>>]

\* The backend's state as a handler reads it
L ==
    [pois |-> logic_pois, active |-> logic_active, size |-> logic_size,
     later |-> <<>>, roi |-> logic_roi]

\* What n reads of optimise_xy_size after the first may return while the
\* backend's thread sets it, L with these reads ahead, and the value the
\* backend is left with when the handler returns
RacingReads(n) == [1..n -> logic_sizes]
Racing(later) == [L EXCEPT !.later = later]
SizeAfter(later) == IF Len(later) = 0 THEN logic_size ELSE later[Len(later)]
otherLogicVars == <<logic_pois, logic_active, logic_sizes, logic_roi_origin, logic_roi>>

\* The state a handler leaves
Commit(g) ==
    /\ mw' = g.mw
    /\ reshown' = g.reshown
    /\ markers' = g.markers
    /\ orphans' = g.orphans
    /\ items' = g.items
    /\ index' = g.index
    /\ coords' = g.coords
    /\ conn' = g.conn
    /\ checked' = g.checked
    /\ visible' = g.visible
    /\ floating' = g.floating
    /\ poi_selector_active' = g.poi_selector_active
    /\ cursor' = g.cursor
    /\ display' = g.display
    /\ dialogs' = g.dialogs
    /\ created' = g.created
    /\ log' = g.log
    /\ raised' = g.raised
    /\ sent' = g.sent
    /\ called' = g.called
    /\ trace' = g.trace

Event(name, arg) == [name |-> name, arg |-> arg]

VARIABLES
    nv_empty_allowed,   \* NameValidator._empty_allowed
    nv_string,          \* the text handed to the validator
    nv_position,        \* the cursor position handed to validate
    nv_result,          \* what the last validate call returned
    nv_fixed,           \* what the last fixup call returned
    nv_calls            \* which of validate / fixup have run on this input

nvVars == <<nv_empty_allowed, nv_string, nv_position, nv_result, nv_fixed, nv_calls>>

\* A marker on its own and the calls made on it
VARIABLES
    pm,         \* the marker
    pm_before,  \* the marker before the last call
    pm_calls    \* the methods called on it, in order
pmVars == <<pm, pm_before, pm_calls>>

vars == <<guiVars, obsVars, logicVars, queue, nvVars, pmVars, loads>>

\* A mapping with one more entry, and with one entry less
WithPoi(d, n, p) == [k \in DOMAIN d \cup {n} |-> IF k = n THEN p ELSE d[k]]
WithoutPoi(d, n) == [k \in DOMAIN d \ {n} |-> d[k]]
NoPois == [k \in {} |-> Zeros3]

\* PoiManagerGui.__init__: no window, no marker, the placement flag off
InitGui ==
    /\ mw = "none"
    /\ reshown = FALSE
    /\ markers = <<>>
    /\ orphans = {}
    /\ items = <<>>
    /\ index = -1
    /\ coords = Zeros3
    /\ conn = [sig \in Signals |-> 0]
    /\ checked = [a \in CheckableActions |-> FALSE]
    /\ visible = [p \in Panels |-> FALSE]
    /\ floating = [d \in Docks |-> FALSE]
    /\ poi_selector_active = FALSE
    /\ cursor = "ArrowCursor"
    /\ display = NoDisplay
    /\ dialogs = <<>>
    /\ created = {}
    /\ log = {}
    /\ raised = ""
    /\ sent = <<>>
    /\ called = <<>>
    /\ trace = <<>>
    /\ last_event = Event("__init__", <<>>)
    /\ activations = 0
    /\ loads = 0
    /\ queue = <<>>

\* A backend that holds no POI yet
InitLogicEmpty ==
    /\ logic_pois = NoPois
    /\ logic_active = NoName
    /\ logic_size = 1
    /\ logic_sizes = {1}
    /\ logic_roi_origin = <<1, 2, 3>>
    /\ logic_roi = DefaultRoi

\* No validator call under way
InitNoValidation ==
    /\ nv_empty_allowed = FALSE
    /\ nv_string = <<>>
    /\ nv_position = 0
    /\ nv_result = NoResult
    /\ nv_fixed = <<>>
    /\ nv_calls = {}

\* No marker looked at on its own
InitNoMarkerCalls ==
    /\ pm = PoiMarker(<<0, 0>>, 1, NoName)
    /\ pm_before = pm
    /\ pm_calls = <<>>

InitValidator ==
    /\ InitGui
    /\ InitLogicEmpty
    /\ InitNoMarkerCalls
    /\ nv_empty_allowed \in BOOLEAN
    /\ nv_string \in StringsUpTo(MaxLen)
    /\ nv_position \in 0..Len(nv_string)
    /\ nv_result = NoResult
    /\ nv_fixed = <<>>
    /\ nv_calls = {}

\* The line edit asks the validator about its current text.
NvValidate ==
    /\ "validate" \notin nv_calls
    /\ nv_result' = Validate(nv_empty_allowed, nv_string, nv_position)
    /\ nv_calls' = nv_calls \cup {"validate"}
    /\ UNCHANGED <<nv_empty_allowed, nv_string, nv_position, nv_fixed>>
    /\ UNCHANGED <<guiVars, obsVars, logicVars, queue, loads, pmVars>>

\* The line edit asks the validator to repair its current text.
NvFixup ==
    /\ "fixup" \notin nv_calls
    /\ nv_fixed' = Fixup(nv_string)
    /\ nv_calls' = nv_calls \cup {"fixup"}
    /\ UNCHANGED <<nv_empty_allowed, nv_string, nv_position, nv_result>>
    /\ UNCHANGED <<guiVars, obsVars, logicVars, queue, loads, pmVars>>

NextValidator == NvValidate \/ NvFixup

SpecValidator == InitValidator /\ [][NextValidator]_vars

(***************************************************************************)
(* The backend (PoiManagerLogic), which runs on its own thread: it changes *)
(* its POIs and emits its notifications; a notification is queued once per *)
(* connection of its signal and handled later on the GUI thread, whether   *)
(* or not the signal is still connected by then.                           *)
(***************************************************************************)
Notification(sig, old_name, new_name, position, pois) ==
    [sig |-> sig, old_name |-> old_name, new_name |-> new_name,
     position |-> position, pois |-> pois, arg |-> <<>>]

\* A notification of sig that carries the arguments arg
Reported(sig, arg) ==
    [Notification(sig, NoName, NoName, Zeros3, NoPois) EXCEPT !.arg = arg]

PoiUpdated(old_name, new_name, position) ==
    Notification("sigPoiUpdated", old_name, new_name, position, NoPois)
ActivePoiUpdated(name) ==
    Notification("sigActivePoiUpdated", NoName, name, Zeros3, NoPois)
RoiUpdated(pois) ==
    Notification("sigRoiUpdated", NoName, NoName, Zeros3, pois)

RECURSIVE Emitted(_)
Emitted(notifications) ==
    IF notifications = <<>> THEN <<>>
    ELSE Repeat(Head(notifications), conn[Head(notifications).sig])
             \o Emitted(Tail(notifications))

\* signal.emit(...) over queued connections, within the queue bound
Emit(notifications) ==
    /\ Len(queue) + Len(Emitted(notifications)) <= MaxQueue
    /\ queue' = queue \o Emitted(notifications)

\* The backend's POIs as one of its calls finds them and leaves them: queued
\* lists what the calls made since have queued for the GUI thread, calls
\* counts them.
Calling ==
    [pois |-> logic_pois, active |-> logic_active, loads |-> loads,
     queued |-> <<>>, calls |-> 0]

Called(b, pois, active, emits) ==
    [b EXCEPT !.pois = pois, !.active = active, !.queued = @ \o Emitted(emits),
              !.calls = @ + 1]

logic_add_poi(b) ==
    IF Cardinality(DOMAIN b.pois) < MaxPois
    THEN {Called(b, WithPoi(b.pois, n, p), b.active, <<PoiUpdated(NoName, n, p)>>) :
              n \in PoiNames \ DOMAIN b.pois, p \in Positions3D}
    ELSE {}

\* Deleting the active POI makes another POI, or none, the active one.
logic_delete_poi(b) ==
    UNION {IF b.active = n
           THEN {Called(b, WithoutPoi(b.pois, n), a,
                        <<ActivePoiUpdated(a), PoiUpdated(n, NoName, Zeros3)>>) :
                     a \in (DOMAIN b.pois \ {n}) \cup {NoName}}
           ELSE {Called(b, WithoutPoi(b.pois, n), b.active,
                        <<PoiUpdated(n, NoName, Zeros3)>>)} :
               n \in DOMAIN b.pois}

\* Renaming the active POI keeps it active under its new name.
logic_rename_poi(b) ==
    UNION {{IF b.active = n
            THEN Called(b, WithPoi(WithoutPoi(b.pois, n), new, b.pois[n]), new,
                        <<PoiUpdated(n, new, b.pois[n]), ActivePoiUpdated(new)>>)
            ELSE Called(b, WithPoi(WithoutPoi(b.pois, n), new, b.pois[n]), b.active,
                        <<PoiUpdated(n, new, b.pois[n])>>) :
                new \in PoiNames \ DOMAIN b.pois} :
               n \in DOMAIN b.pois}

logic_move_poi(b) ==
    UNION {{Called(b, WithPoi(b.pois, n, p), b.active, <<PoiUpdated(n, n, p)>>) :
                p \in Positions3D \ {b.pois[n]}} :
               n \in DOMAIN b.pois}

logic_set_active_poi(b) ==
    {Called(b, b.pois, n, <<ActivePoiUpdated(n)>>) :
         n \in (DOMAIN b.pois \cup {NoName}) \ {b.active}}

\* The backend loads an ROI: its POIs become those of the file, all found at
\* one position of the scan, one of them or none the active one, and it reports
\* the new mapping.
logic_load_roi(b) ==
    IF b.loads < MaxLoads
    THEN UNION {{[Called(b, [n \in names |-> p], a, <<RoiUpdated([n \in names |-> p])>>)
                     EXCEPT !.loads = @ + 1] :
                     a \in names \cup {NoName}} :
                    names \in SUBSET PoiNames, p \in Positions3D}
    ELSE {}

\* The calls that change the backend's POIs, and what the call op may make of b
BackendOps ==
    {"add_poi", "delete_poi", "rename_poi", "move_poi", "set_active_poi", "load_roi"}
BackendCall(op, b) ==
    CASE op = "add_poi" -> logic_add_poi(b)
      [] op = "delete_poi" -> logic_delete_poi(b)
      [] op = "rename_poi" -> logic_rename_poi(b)
      [] op = "move_poi" -> logic_move_poi(b)
      [] op = "set_active_poi" -> logic_set_active_poi(b)
      [] op = "load_roi" -> logic_load_roi(b)

\* The backend's thread makes the call op while the GUI thread is between two
\* handlers.
LogicCalls(op) ==
    \E b \in BackendCall(op, Calling) :
        /\ logic_pois' = b.pois
        /\ logic_active' = b.active
        /\ loads' = b.loads
        /\ Len(queue) + Len(b.queued) <= MaxQueue
        /\ queue' = queue \o b.queued
        /\ UNCHANGED <<logic_size, logic_sizes, logic_roi_origin, logic_roi>>
        /\ UNCHANGED <<guiVars, obsVars, nvVars, pmVars>>

\* What the backend's thread may have made of its POIs while a handler of the
\* GUI thread runs: every state up to k of the calls ops away from b
RECURSIVE BackendRuns(_, _, _)
BackendRuns(ops, b, k) ==
    {b} \cup (IF k = 0 THEN {}
              ELSE UNION {BackendRuns(ops, c, k - 1) :
                              c \in UNION {BackendCall(op, b) : op \in ops}})

\* on_activate reads poi_positions (314) and, inside _update_pois, active_poi
\* (889) with no lock, and connects the backend's signals later still (326):
\* seen is the active POI as the read of active_poi finds it; pois, active and
\* loads are the backend when the signals are connected, up to MaxRacing calls
\* away from the backend the read of poi_positions found; queued lists what
\* these calls queued over the connections there were.
RacingCalls(ops) ==
    UNION {{[seen |-> m.active, pois |-> f.pois, active |-> f.active,
             loads |-> f.loads, queued |-> f.queued] :
                f \in BackendRuns(ops, m, MaxRacing - m.calls)} :
               m \in BackendRuns(ops, Calling, MaxRacing)}

\* The backend's optimise_xy_size is set to another value; no signal the GUI
\* is connected to reports it.
LogicSetsOptimiseSize ==
    \E s \in logic_sizes \ {logic_size} :
        /\ logic_size' = s
        /\ UNCHANGED otherLogicVars
        /\ UNCHANGED <<guiVars, obsVars, queue, nvVars, pmVars, loads>>

\* The backend reports its whole POI mapping (sigRoiUpdated with key 'pois').
LogicEmitRoi ==
    /\ conn["sigRoiUpdated"] > 0
    /\ Emit(<<RoiUpdated(logic_pois)>>)
    /\ UNCHANGED <<logicVars, guiVars, obsVars, nvVars, pmVars, loads>>

\* The backend emits one of notifications, which reaches the GUI's queue when
\* its signal is connected.
LogicReports(notifications) ==
    \E n \in notifications :
        /\ conn[n.sig] > 0
        /\ Emit(<<n>>)
        /\ UNCHANGED <<logicVars, guiVars, obsVars, nvVars, pmVars, loads>>

(***************************************************************************)
(* The GUI thread: one action per handler.                                 *)
(***************************************************************************)
\* Layouts a layout file may give a new window: any check states of the view
\* actions, the docks all shown and docked or all hidden and floating; the
\* placement action starts unchecked.
UiLayouts ==
    {ui \in [checked : [CheckableActions -> BOOLEAN], docked : BOOLEAN] :
        ~ui.checked["poi_selector_Action"]}

\* The module is activated (for the first time, or again after deactivation)
\* with a layout file that gives one of layouts, while the backend's thread
\* makes calls of ops.
OnActivate(layouts, ops) ==
    /\ mw # "shown" \/ reshown
    /\ activations < MaxActivations
    /\ \E ui \in layouts, add_order \in Orders(DOMAIN logic_pois), r \in RacingCalls(ops) :
           \E later \in RacingReads(Len(add_order)) :
               /\ Commit(on_activate(G, ui, [Racing(later) EXCEPT !.active = r.seen],
                                     add_order))
               /\ logic_size' = SizeAfter(later)
               /\ logic_pois' = r.pois
               /\ logic_active' = r.active
               /\ loads' = r.loads
               /\ Len(queue) + Len(r.queued) <= MaxQueue
               /\ queue' = queue \o r.queued
    /\ last_event' = Event("on_activate", <<>>)
    /\ activations' = activations + 1
    /\ UNCHANGED <<logic_sizes, logic_roi_origin, logic_roi, nvVars, pmVars>>

\* The layouts that have every view action checked and the docks docked
DefaultUiLayouts ==
    {ui \in UiLayouts : ui.docked /\ \A a \in ViewActions : ui.checked[a]}

OnDeactivate ==
    /\ mw = "shown"
    /\ ~reshown
    /\ Commit(on_deactivate(G))
    /\ last_event' = Event("on_deactivate", <<>>)
    /\ UNCHANGED <<activations, logicVars, queue, nvVars, pmVars, loads>>

\* A queued sigPoiUpdated reaches update_poi.
HandlePoiUpdated ==
    /\ queue # <<>>
    /\ Head(queue).sig = "sigPoiUpdated"
    /\ LET n == Head(queue) IN
           /\ Commit(update_poi(G, n.old_name, n.new_name, n.position, L))
           /\ last_event' = Event("update_poi", <<n.old_name, n.new_name, n.position>>)
    /\ queue' = Tail(queue)
    /\ UNCHANGED <<activations, logicVars, nvVars, pmVars, loads>>

\* A queued sigActivePoiUpdated reaches update_active_poi.
HandleActivePoiUpdated ==
    /\ queue # <<>>
    /\ Head(queue).sig = "sigActivePoiUpdated"
    /\ LET n == Head(queue) IN
           /\ Commit(update_active_poi(G, n.new_name, L))
           /\ last_event' = Event("update_active_poi", <<n.new_name>>)
    /\ queue' = Tail(queue)
    /\ UNCHANGED <<activations, logicVars, nvVars, pmVars, loads>>

\* A queued sigRoiUpdated reaches update_roi, whose dict holds the key 'pois'.
HandleRoiUpdated ==
    /\ queue # <<>>
    /\ Head(queue).sig = "sigRoiUpdated"
    /\ Len(Head(queue).arg) = 0
    /\ LET n == Head(queue) IN
           /\ \E del_order \in DelOrders(G, n.pois), add_order \in AddOrders(G, n.pois) :
                  \E later \in RacingReads(Len(add_order)) :
                      /\ Commit(update_roi(G, [pois |-> n.pois], Racing(later),
                                           del_order, add_order))
                      /\ logic_size' = SizeAfter(later)
           /\ last_event' = Event("_update_pois", <<n.pois, Keys(markers)>>)
    /\ queue' = Tail(queue)
    /\ UNCHANGED <<activations, otherLogicVars, nvVars, pmVars, loads>>

\* The user can work the window: it is shown, and no modal dialog keeps the
\* input from it.
WindowTakesInput == mw = "shown" /\ dialogs = <<>>

\* The user flips poi_selector_Action: toggled(bool) reaches toggle_poi_selector.
UserTogglesPoiSelector ==
    /\ WindowTakesInput
    /\ LET now == ~checked["poi_selector_Action"]
           flipped == [G EXCEPT !.checked["poi_selector_Action"] = now]
       IN /\ Commit(PerConnection(LAMBDA g : toggle_poi_selector(g, now), flipped,
                                  conn["poi_selector_Action.toggled"]))
          /\ last_event' = Event("toggle_poi_selector", <<now>>)
    /\ UNCHANGED <<activations, logicVars, queue, nvVars, pmVars, loads>>

\* Other code calls the slot toggle_poi_selector(is_active) itself, with
\* either value, whatever the mode is and whatever state the module is in.
CallsTogglePoiSelector ==
    /\ \E is_active \in BOOLEAN :
           /\ Commit(toggle_poi_selector(G, is_active))
           /\ last_event' = Event("call_toggle_poi_selector",
                                  <<is_active, poi_selector_active>>)
    /\ UNCHANGED <<activations, logicVars, queue, nvVars, pmVars, loads>>

ClickPositions == {<<5, 7>>, <<8, 9>>}
Buttons == {"LeftButton", "RightButton", "MiddleButton"}

\* The user clicks the scan image: sigMouseClicked(pos, button) reaches
\* create_poi_from_click once per connection.
UserClicksImage ==
    /\ WindowTakesInput
    /\ \E pos \in ClickPositions, button \in Buttons :
           /\ Commit(PerConnection(
                  LAMBDA g : create_poi_from_click(g, pos, button, logic_roi_origin),
                  G, conn[MouseClicked]))
           /\ last_event' = Event("image_clicked", <<pos, button, logic_roi_origin>>)
    /\ UNCHANGED <<activations, logicVars, queue, nvVars, pmVars, loads>>

\* The user clicks a marker of the scan image: one of the collection, or one
\* the collection has dropped (692) that is still an item of the view.
UserClicksMarker ==
    /\ WindowTakesInput
    /\ \E button \in Buttons, forwarded \in BOOLEAN :
           \/ \E i \in 1..Len(markers) :
                  LET m == markers[i].marker IN
                  /\ m.in_view
                  /\ Commit(ClickOnMarker(G, m, m.position, button, forwarded,
                                          logic_roi_origin))
                  /\ last_event' = Event("marker_clicked",
                                         <<markers[i].key, button, m.poi_name, forwarded>>)
           \/ \E m \in orphans :
                  /\ m.in_view
                  /\ Commit(ClickOnMarker(G, m, m.position, button, forwarded,
                                          logic_roi_origin))
                  /\ last_event' = Event("dropped_marker_clicked",
                                         <<m.poi_name, button, forwarded>>)
    /\ UNCHANGED <<activations, logicVars, queue, nvVars, pmVars, loads>>

\* The module's show() is called, whatever state the module is in.
CallsShow ==
    /\ Commit(show(G))
    /\ last_event' = Event("show", <<mw>>)
    /\ UNCHANGED <<activations, logicVars, queue, nvVars, pmVars, loads>>

\* The POIs of roi_dict, none when it holds no such key
PoisOf(roi_dict) ==
    IF IsDict(roi_dict) /\ "pois" \in DOMAIN roi_dict THEN roi_dict["pois"] ELSE NoPois

Answers == {"Yes", "No"}
DeleteAllClicked == Reported("del_all_pois_PushButton.clicked", <<>>)

\* The user presses del_all_pois_PushButton: clicked is connected to
\* delete_all_pois_clicked over a queued connection (455-456), so the slot is
\* queued for the GUI thread, once per connection.
UserClicksDeleteAll ==
    /\ WindowTakesInput
    /\ Emit(<<DeleteAllClicked>>)
    /\ Commit(G)
    /\ last_event' = Event("del_all_pois_PushButton.clicked", <<>>)
    /\ UNCHANGED <<activations, logicVars, nvVars, pmVars, loads>>

\* The queued click reaches delete_all_pois_clicked, which opens the prompt
\* (794-797) and waits for the answer.
HandleDeleteAllClicked ==
    /\ queue # <<>>
    /\ Head(queue).sig = DeleteAllClicked.sig
    /\ Commit(Opened(G, Dialog("question", 0)))
    /\ last_event' = Event("QMessageBox.question", <<>>)
    /\ queue' = Tail(queue)
    /\ UNCHANGED <<activations, logicVars, nvVars, pmVars, loads>>

\* The user answers the innermost prompt and delete_all_pois_clicked goes on
\* (798-800); the event tells the answer and what the GUI thread handled last
\* before it.
UserAnswersQuestion ==
    /\ dialogs # <<>>
    /\ Innermost(G).kind = "question"
    /\ \E result \in Answers :
           /\ Commit(delete_all_pois_clicked(Returned(G), result))
           /\ last_event' = Event("delete_all_pois_clicked", <<result, last_event.name>>)
    /\ UNCHANGED <<activations, logicVars, queue, nvVars, pmVars, loads>>

\* The backend's ROI origin changes (the sample drifts).
LogicMovesRoi ==
    /\ \E o \in Positions3D \ {logic_roi_origin} : logic_roi_origin' = o
    /\ UNCHANGED <<logic_pois, logic_active, logic_size, logic_sizes, logic_roi>>
    /\ UNCHANGED <<guiVars, obsVars, queue, nvVars, pmVars, loads>>

\* The user triggers a view action from the menu.
UserTriggersViewAction ==
    /\ WindowTakesInput
    /\ \E a \in ViewActions :
           /\ Commit(TriggerViewAction(G, a))
           /\ last_event' = Event("view_action", <<a>>)
    /\ UNCHANGED <<activations, logicVars, queue, nvVars, pmVars, loads>>

\* The user triggers blink_correction_view_Action: its check state flips and
\* triggered(bool) reaches toggle_blink_correction.
UserTriggersBlinkCorrection ==
    /\ WindowTakesInput
    /\ LET now == ~display.blink_correction_checked
           flipped == [G EXCEPT !.display.blink_correction_checked = now]
       IN /\ Commit(PerConnection(LAMBDA g : toggle_blink_correction(g, now), flipped,
                                  conn["blink_correction_view_Action.triggered"]))
          /\ last_event' = Event("toggle_blink_correction", <<now>>)
    /\ UNCHANGED <<activations, logicVars, queue, nvVars, pmVars, loads>>

\* The docks the user drags out of the window, back into it, or closes
MovedDocks == {"roi_map_dockWidget", "poi_editor_dockWidget"}

\* The user drags a dock out of the window or back into it.
UserFloatsDock ==
    /\ WindowTakesInput
    /\ \E d \in MovedDocks :
           /\ visible[d]
           /\ Commit([G EXCEPT !.floating[d] = ~@])
           /\ last_event' = Event("float_dock", <<d>>)
    /\ UNCHANGED <<activations, logicVars, queue, nvVars, pmVars, loads>>

\* The user closes a dock with its close button, which no slot listens to.
UserClosesDock ==
    /\ WindowTakesInput
    /\ \E d \in MovedDocks :
           /\ visible[d]
           /\ Commit([G EXCEPT !.visible[d] = FALSE])
           /\ last_event' = Event("close_dock", <<d>>)
    /\ UNCHANGED <<activations, logicVars, queue, nvVars, pmVars, loads>>

\* The user triggers restore_default_view_Action.
UserRestoresDefaultView ==
    /\ WindowTakesInput
    /\ Commit(PerConnection(restore_default_view, G,
                            conn["restore_default_view_Action.triggered"]))
    /\ last_event' = Event("restore_default_view", <<>>)
    /\ UNCHANGED <<activations, logicVars, queue, nvVars, pmVars, loads>>

\* The values the user types into the threshold and the diameter box, the
\* names into the ROI name field, and what the file dialog returns
TypedValues == {1, 2}
TypedRoiNames == {"roi", "roi2"}
TypedNametags == {"", "tag2"}
ChosenFiles == {"", "roi.dat"}

\* The user types a threshold and leaves the box: editingFinished reaches
\* poi_threshold_changed.
UserCommitsThreshold ==
    /\ WindowTakesInput
    /\ \E v \in TypedValues :
           /\ Commit(PerConnection(poi_threshold_changed,
                                   [G EXCEPT !.display.poi_threshold = v],
                                   conn["poi_threshold_doubleSpinBox.editingFinished"]))
           /\ last_event' = Event("poi_threshold_changed", <<v>>)
    /\ UNCHANGED <<activations, logicVars, queue, nvVars, pmVars, loads>>

\* The same for the diameter box and poi_diameter_changed
UserCommitsDiameter ==
    /\ WindowTakesInput
    /\ \E v \in TypedValues :
           /\ Commit(PerConnection(poi_diameter_changed,
                                   [G EXCEPT !.display.poi_diameter = v],
                                   conn["poi_diameter_doubleSpinBox.editingFinished"]))
           /\ last_event' = Event("poi_diameter_changed", <<v>>)
    /\ UNCHANGED <<activations, logicVars, queue, nvVars, pmVars, loads>>

\* The same for the ROI name field and roi_name_changed
UserCommitsRoiName ==
    /\ WindowTakesInput
    /\ \E name \in TypedRoiNames :
           /\ Commit(PerConnection(roi_name_changed,
                                   [G EXCEPT !.display.roi_name = name],
                                   conn["roi_name_LineEdit.editingFinished"]))
           /\ last_event' = Event("roi_name_changed", <<name>>)
    /\ UNCHANGED <<activations, logicVars, queue, nvVars, pmVars, loads>>

\* The same for the POI name-tag field and poi_nametag_changed; the field's
\* validator (303) accepts the empty text.
UserCommitsPoiNametag ==
    /\ WindowTakesInput
    /\ \E tag \in TypedNametags :
           /\ Commit(PerConnection(poi_nametag_changed,
                                   [G EXCEPT !.display.poi_nametag = tag],
                                   conn["poi_nametag_LineEdit.editingFinished"]))
           /\ last_event' = Event("poi_nametag_changed", <<tag>>)
    /\ UNCHANGED <<activations, logicVars, queue, nvVars, pmVars, loads>>

\* The user triggers save_roi_Action.
UserSavesRoi ==
    /\ WindowTakesInput
    /\ Commit(PerConnection(save_roi, G, conn["save_roi_Action.triggered"]))
    /\ last_event' = Event("save_roi", <<>>)
    /\ UNCHANGED <<activations, logicVars, queue, nvVars, pmVars, loads>>

\* The user triggers load_roi_Action: triggered reaches load_roi over a direct
\* connection, and load_roi opens the file dialog (784-787) and waits for it.
UserLoadsRoi ==
    /\ WindowTakesInput
    /\ LET k == conn["load_roi_Action.triggered"] IN
           Commit(IF k > 0 THEN Opened(G, Dialog("file", k - 1)) ELSE G)
    /\ last_event' = Event("QFileDialog.getOpenFileName", <<>>)
    /\ UNCHANGED <<activations, logicVars, queue, nvVars, pmVars, loads>>

\* The user answers the innermost file dialog and load_roi goes on (788-790).
UserAnswersFileDialog ==
    /\ dialogs # <<>>
    /\ Innermost(G).kind = "file"
    /\ \E this_file \in ChosenFiles :
           /\ Commit(load_roi(Returned(G), this_file))
           /\ last_event' = Event("load_roi", <<this_file>>)
    /\ UNCHANGED <<activations, logicVars, queue, nvVars, pmVars, loads>>

\* Time stamps around the boundaries between the units of the time axis
TimeStamps == {100, 299, 300, 7199, 7200, 172799, 172800}

\* The row arrays of at most n rows
RECURSIVE RowsUpTo(_)
RowsUpTo(n) ==
    IF n = 0 THEN {<<>>}
    ELSE LET shorter == RowsUpTo(n - 1) IN
         shorter \cup {Append(r, Row(t)) : r \in {x \in shorter : Len(x) = n - 1},
                                            t \in TimeStamps}

\* The history arrays update_roi is handed: of width 4 with up to MaxRows
\* rows, of width 3, or None
\* (of the time stamps of a history at most one is not the smallest)
Histories ==
    {History(4, r) : r \in {x \in RowsUpTo(MaxRows) :
                              Cardinality({i \in 1..Len(x) : x[i][1] # 100}) <= 1}}
        \cup {History(3, <<<<0, 1, 2>>>>), NoHistory}

\* The backend's reports of a history
HistoryReports == {Reported("sigRoiUpdated", <<[history |-> h]>>) : h \in Histories}

\* A queued sigRoiUpdated whose dict holds a history and nothing else reaches
\* update_roi.
HandleRoiHistory ==
    /\ queue # <<>>
    /\ Head(queue).sig = "sigRoiUpdated"
    /\ Len(Head(queue).arg) = 1
    /\ LET roi_dict == Head(queue).arg[1] IN
           /\ IsDict(roi_dict)
           /\ DOMAIN roi_dict = {"history"}
           /\ Commit(update_roi(G, roi_dict, L, <<>>, <<>>))
           /\ last_event' = Event("_update_roi_history", <<roi_dict["history"]>>)
    /\ queue' = Tail(queue)
    /\ UNCHANGED <<activations, logicVars, nvVars, pmVars, loads>>

\* The dicts update_roi is handed: any of the keys it reads, each with a
\* value the backend may send (a nametag of None, a history of width 4 with
\* one row or none or of width 3, an image or None, the POI poi1 at another
\* position), and a value that is no dict.
RoiKeys == {"name", "poi_nametag", "history", "scan_image", "scan_image_extent", "pois"}
RoiValues ==
    [name : {"roi2"},
     poi_nametag : {NoneValue},
     history : {History(4, <<Row(300)>>), History(4, <<>>), History(3, <<<<0, 1, 2>>>>)},
     scan_image : {"image2", NoneValue},
     scan_image_extent : {"extent2"},
     pois : {[n \in {"poi1"} |-> <<4, 5, 6>>]}]
RoiDicts ==
    {[k \in K |-> v[k]] : K \in SUBSET RoiKeys, v \in RoiValues} \cup {NotADict}

\* The periods, remaining times, thresholds and diameters the backend reports
Periods == {10, 20}
RemainingTimes == {0, 5}
ReportedValues == {1, 2}

\* The backend's reports of ROI properties, of its timer, its state, its
\* threshold and its diameter
RoiDictReports == {Reported("sigRoiUpdated", <<roi_dict>>) : roi_dict \in RoiDicts}
TimerReports ==
    {Reported("sigOptimizeTimerUpdated", <<is_active, period, time_until_refocus>>) :
        is_active \in BOOLEAN, period \in Periods, time_until_refocus \in RemainingTimes}
StateReports == {Reported("sigOptimizeStateUpdated", <<is_active>>) : is_active \in BOOLEAN}
ThresholdReports == {Reported("sigThresholdUpdated", <<v>>) : v \in ReportedValues}
DiameterReports == {Reported("sigDiameterUpdated", <<v>>) : v \in ReportedValues}

\* A queued sigRoiUpdated reaches update_roi with roi_dict.
HandleRoiDict ==
    /\ queue # <<>>
    /\ Head(queue).sig = "sigRoiUpdated"
    /\ Len(Head(queue).arg) = 1
    /\ LET roi_dict == Head(queue).arg[1] IN
           /\ \E del_order \in DelOrders(G, PoisOf(roi_dict)),
                 add_order \in AddOrders(G, PoisOf(roi_dict)) :
                  \E later \in RacingReads(Len(add_order)) :
                      /\ Commit(update_roi(G, roi_dict, Racing(later), del_order, add_order))
                      /\ logic_size' = SizeAfter(later)
           /\ last_event' = Event("update_roi", <<roi_dict>>)
    /\ queue' = Tail(queue)
    /\ UNCHANGED <<activations, otherLogicVars, nvVars, pmVars, loads>>

\* A queued sigOptimizeTimerUpdated reaches update_refocus_timer.
HandleOptimizeTimerUpdated ==
    /\ queue # <<>>
    /\ Head(queue).sig = "sigOptimizeTimerUpdated"
    /\ LET is_active == Head(queue).arg[1]
           period == Head(queue).arg[2]
           time_until_refocus == Head(queue).arg[3]
       IN /\ Commit(update_refocus_timer(G, is_active, period, time_until_refocus))
          /\ last_event' = Event("update_refocus_timer",
                                 <<is_active, period, time_until_refocus,
                                   display.has_focus, display.track_period>>)
    /\ queue' = Tail(queue)
    /\ UNCHANGED <<activations, logicVars, nvVars, pmVars, loads>>

\* A queued sigOptimizeStateUpdated reaches update_refocus_state.
HandleOptimizeStateUpdated ==
    /\ queue # <<>>
    /\ Head(queue).sig = "sigOptimizeStateUpdated"
    /\ LET is_active == Head(queue).arg[1] IN
           /\ Commit(update_refocus_state(G, is_active))
           /\ last_event' = Event("update_refocus_state", <<is_active>>)
    /\ queue' = Tail(queue)
    /\ UNCHANGED <<activations, logicVars, nvVars, pmVars, loads>>

\* A queued sigThresholdUpdated reaches _update_poi_threshold.
HandleThresholdUpdated ==
    /\ queue # <<>>
    /\ Head(queue).sig = "sigThresholdUpdated"
    /\ LET threshold == Head(queue).arg[1] IN
           /\ Commit(_update_poi_threshold(G, threshold))
           /\ last_event' = Event("_update_poi_threshold",
                                  <<threshold, display.poi_threshold>>)
    /\ queue' = Tail(queue)
    /\ UNCHANGED <<activations, logicVars, nvVars, pmVars, loads>>

\* A queued sigDiameterUpdated reaches _update_poi_diameter.
HandleDiameterUpdated ==
    /\ queue # <<>>
    /\ Head(queue).sig = "sigDiameterUpdated"
    /\ LET diameter == Head(queue).arg[1] IN
           /\ Commit(_update_poi_diameter(G, diameter))
           /\ last_event' = Event("_update_poi_diameter",
                                  <<diameter, display.poi_diameter>>)
    /\ queue' = Tail(queue)
    /\ UNCHANGED <<activations, logicVars, nvVars, pmVars, loads>>

\* The user clicks into the period box, or leaves it: a spin box that loses
\* the focus emits editingFinished, which reaches track_period_changed.
UserFocusesPeriodBox ==
    /\ WindowTakesInput
    /\ IF display.has_focus
       THEN Commit(PerConnection(track_period_changed,
                                 [G EXCEPT !.display.has_focus = FALSE],
                                 conn["track_period_SpinBox.editingFinished"]))
       ELSE Commit([G EXCEPT !.display.has_focus = TRUE])
    /\ last_event' = Event("period_box_focus", <<~display.has_focus>>)
    /\ UNCHANGED <<activations, logicVars, queue, nvVars, pmVars, loads>>

\* The user types a period into the box that has the focus.
UserTypesPeriod ==
    /\ WindowTakesInput
    /\ display.has_focus
    /\ \E period \in Periods \ {display.track_period} :
           /\ Commit([G EXCEPT !.display.track_period = period])
           /\ last_event' = Event("period_typed", <<period>>)
    /\ UNCHANGED <<activations, logicVars, queue, nvVars, pmVars, loads>>

\* The texts the user types into poi_name_LineEdit
PoiNameTexts == PoiNames \cup {"", "new"}

\* The user types text into poi_name_LineEdit and presses Enter.  The field
\* has a NameValidator() (302), under which the empty text is Intermediate:
\* a line edit emits returnPressed only for a text its validator finds
\* Acceptable, and the signal reaches poi_name_changed once per connection.
UserEntersPoiName ==
    /\ WindowTakesInput
    /\ \E text \in PoiNameTexts :
           LET typed == [G EXCEPT !.display.poi_name = text] IN
           /\ IF text # ""
              THEN Commit(PerConnection(poi_name_changed, typed,
                                        conn["poi_name_LineEdit.returnPressed"]))
              ELSE Commit(typed)
           /\ last_event' = Event("poi_name_entered",
                                  <<text, currentText(items, index)>>)
    /\ UNCHANGED <<activations, logicVars, queue, nvVars, pmVars, loads>>

(***************************************************************************)
(* Specifications                                                          *)
(***************************************************************************)
\* POIs: the backend changes its POIs before the module is activated and
\* while the GUI handles the notifications.
Init == InitGui /\ InitLogicEmpty /\ InitNoValidation /\ InitNoMarkerCalls

Next ==
    \/ OnActivate(DefaultUiLayouts, {})
    \/ LogicCalls("add_poi")
    \/ LogicCalls("delete_poi")
    \/ LogicCalls("rename_poi")
    \/ LogicCalls("move_poi")
    \/ LogicCalls("set_active_poi")
    \/ LogicEmitRoi
    \/ HandlePoiUpdated
    \/ HandleActivePoiUpdated
    \/ HandleRoiUpdated

Spec == Init /\ [][Next]_vars

\* Reconciliation: the module is activated while the backend makes any of its
\* calls, and the backend loads ROIs while the GUI handles the reports.
NextRoi ==
    \/ OnActivate(DefaultUiLayouts, BackendOps)
    \/ LogicCalls("load_roi")
    \/ HandleRoiUpdated

SpecRoi == Init /\ [][NextRoi]_vars

\* Lifecycle: the module is activated and deactivated over a backend that
\* holds any POIs, and the user works the window.
InitLifecycle ==
    /\ InitGui
    /\ InitNoValidation
    /\ InitNoMarkerCalls
    /\ \E names \in SUBSET PoiNames :
           /\ logic_pois = [n \in names |-> <<1, 2, 3>>]
           /\ logic_active \in names \cup {NoName}
    /\ logic_size = 1
    /\ logic_sizes = {1}
    /\ logic_roi_origin = <<1, 2, 3>>
    /\ logic_roi = DefaultRoi

NextLifecycle ==
    \/ OnActivate(UiLayouts, {})
    \/ OnDeactivate
    \/ activations = MaxActivations /\ CallsShow
    \/ UserTogglesPoiSelector
    \/ UserClicksImage
    \/ LogicMovesRoi

SpecLifecycle == InitLifecycle /\ [][NextLifecycle]_vars

\* A marker as _add_poi_marker or _update_pois left it, and select and
\* deselect called on it in any order
InitMarker ==
    /\ InitGui
    /\ InitLogicEmpty
    /\ InitNoValidation
    /\ \E position \in ClickPositions, s \in OptimiseSizes,
          poi_name \in PoiNames \cup {NoName}, resized \in BOOLEAN :
           pm = LET m == add_to_view_widget(PoiMarker(position, s, poi_name))
                IN IF resized THEN setSize(m, s) ELSE m
    /\ pm_before = pm
    /\ pm_calls = <<>>

MarkerSelect ==
    /\ Len(pm_calls) < MaxCalls
    /\ pm' = select(pm)
    /\ pm_before' = pm
    /\ pm_calls' = Append(pm_calls, "select")
    /\ UNCHANGED <<guiVars, obsVars, logicVars, queue, nvVars, loads>>

MarkerDeselect ==
    /\ Len(pm_calls) < MaxCalls
    /\ pm' = deselect(pm)
    /\ pm_before' = pm
    /\ pm_calls' = Append(pm_calls, "deselect")
    /\ UNCHANGED <<guiVars, obsVars, logicVars, queue, nvVars, loads>>

NextMarker ==
    \/ MarkerSelect
    \/ MarkerDeselect

SpecMarker == InitMarker /\ [][NextMarker]_vars

\* Activation with the backend acting while on_activate runs
\* The backend acts at any time until the signals are connected, and later
\* whenever the GUI has handled every notification and left no marker
\* behind in the view.
BackendMayAct ==
    conn["sigPoiUpdated"] = 0 \/ (queue = <<>> /\ orphans = {})

NextActivation ==
    \/ OnActivate(DefaultUiLayouts,
                  {"add_poi", "delete_poi", "rename_poi", "move_poi", "set_active_poi"})
    \/ BackendMayAct /\ LogicCalls("add_poi")
    \/ BackendMayAct /\ LogicCalls("delete_poi")
    \/ BackendMayAct /\ LogicCalls("rename_poi")
    \/ BackendMayAct /\ LogicCalls("move_poi")
    \/ HandlePoiUpdated
    \/ HandleActivePoiUpdated

SpecActivation == InitLifecycle /\ [][NextActivation]_vars

\* The user rearranging the activated window and restoring the default view
NextView ==
    \/ OnActivate(UiLayouts, {})
    \/ UserTriggersViewAction
    \/ UserTriggersBlinkCorrection
    \/ UserFloatsDock
    \/ UserClosesDock
    \/ UserRestoresDefaultView

SpecView == Init /\ [][NextView]_vars

\* The user commanding the backend through the activated window and
\* answering its dialogs, the backend reporting its threshold meanwhile
NextCommands ==
    \/ OnActivate(DefaultUiLayouts, {})
    \/ OnDeactivate
    \/ queue = <<>> /\ LogicReports(ThresholdReports)
    \/ HandleThresholdUpdated
    \/ UserCommitsThreshold
    \/ UserCommitsDiameter
    \/ UserCommitsRoiName
    \/ UserCommitsPoiNametag
    \/ UserSavesRoi
    \/ UserLoadsRoi
    \/ UserAnswersFileDialog
    \/ UserClicksDeleteAll
    \/ HandleDeleteAllClicked
    \/ UserAnswersQuestion

SpecCommands == Init /\ [][NextCommands]_vars

\* A backend whose history has one row or none, and history updates of every
\* shape arriving at the activated GUI.
InitHistory ==
    /\ InitGui
    /\ InitNoValidation
    /\ InitNoMarkerCalls
    /\ logic_pois = NoPois
    /\ logic_active = NoName
    /\ logic_size = 1
    /\ logic_sizes = {1}
    /\ logic_roi_origin = <<1, 2, 3>>
    /\ \E r \in {<<>>, <<Row(299)>>, <<Row(300)>>} :
           logic_roi = [DefaultRoi EXCEPT !.history = History(4, r)]

NextHistory ==
    \/ OnActivate(DefaultUiLayouts, {})
    \/ OnDeactivate
    \/ queue = <<>> /\ LogicReports(HistoryReports)
    \/ HandleRoiHistory

SpecHistory == InitHistory /\ [][NextHistory]_vars

\* ROI updates of every shape arriving at the GUI activated over a backend
\* that holds the POI poi1, the active one
InitRoiDict ==
    /\ InitGui
    /\ InitNoValidation
    /\ InitNoMarkerCalls
    /\ logic_pois = [n \in {"poi1"} |-> <<1, 2, 3>>]
    /\ logic_active = "poi1"
    /\ logic_size = 1
    /\ logic_sizes = {1}
    /\ logic_roi_origin = <<1, 2, 3>>
    /\ logic_roi = DefaultRoi

NextRoiDict ==
    \/ OnActivate(DefaultUiLayouts, {})
    \/ queue = <<>> /\ LogicReports(RoiDictReports)
    \/ HandleRoiDict

SpecRoiDict == InitRoiDict /\ [][NextRoiDict]_vars

\* The user renaming POIs in the window activated over any backend
NextRename ==
    \/ OnActivate(UiLayouts, {})
    \/ OnDeactivate
    \/ UserEntersPoiName

SpecRename == InitLifecycle /\ [][NextRename]_vars

\* POIs added, moved, made active and reported whole while the backend's
\* optimisation size changes
InitSize ==
    /\ InitGui
    /\ InitNoValidation
    /\ InitNoMarkerCalls
    /\ logic_pois = NoPois
    /\ logic_active = NoName
    /\ logic_size = 1
    /\ logic_sizes = OptimiseSizes
    /\ logic_roi_origin = <<1, 2, 3>>
    /\ logic_roi = DefaultRoi

NextSize ==
    \/ OnActivate(DefaultUiLayouts, {"add_poi", "move_poi", "set_active_poi"})
    \/ LogicCalls("add_poi")
    \/ LogicCalls("move_poi")
    \/ LogicCalls("set_active_poi")
    \/ LogicEmitRoi
    \/ LogicSetsOptimiseSize
    \/ HandlePoiUpdated
    \/ HandleActivePoiUpdated
    \/ HandleRoiUpdated

SpecSize == InitSize /\ [][NextSize]_vars

\* POIs added, renamed and made active by the backend, each change handled
\* before the next, while the user clicks the markers
NextMarkerName ==
    \/ OnActivate(DefaultUiLayouts, {"add_poi", "set_active_poi"})
    \/ queue = <<>> /\ LogicCalls("add_poi")
    \/ queue = <<>> /\ LogicCalls("rename_poi")
    \/ queue = <<>> /\ LogicCalls("set_active_poi")
    \/ HandlePoiUpdated
    \/ HandleActivePoiUpdated
    \/ UserClicksMarker

SpecMarkerName == Init /\ [][NextMarkerName]_vars

\* The delete-all button pressed and its prompt answered while the backend
\* adds POIs and the GUI thread handles their notifications, also inside the
\* prompt's event loop, and while the module is deactivated and activated
\* again. The backend adds a POI when the GUI thread has nothing queued;
\* show() is called when it has nothing queued and no prompt is open, so the
\* button is also pressed in the window shown again after deactivation.
NextDeleteAll ==
    \/ OnActivate(DefaultUiLayouts, {})
    \/ OnDeactivate
    \/ queue = <<>> /\ dialogs = <<>> /\ CallsShow
    \/ queue = <<>> /\ LogicCalls("add_poi")
    \/ HandlePoiUpdated
    \/ UserClicksDeleteAll
    \/ HandleDeleteAllClicked
    \/ UserAnswersQuestion

SpecDeleteAll == Init /\ [][NextDeleteAll]_vars

\* The POI-placement mode switched by the user, by other code and by
\* deactivation
NextSelector ==
    \/ OnActivate(UiLayouts, {})
    \/ OnDeactivate
    \/ CallsShow
    \/ UserTogglesPoiSelector
    \/ CallsTogglePoiSelector
    \/ UserClicksImage

SpecSelector == Init /\ [][NextSelector]_vars

\* The displays beside the POIs are as on_activate filled them.
DisplaysAsActivated ==
    LET g1 == __init_roi_history_plot(
                  __init_roi_scan_image([G EXCEPT !.display = UiDisplay], L), L)
        g2 == update_refocus_timer(g1, L.roi.locked, L.roi.refocus_period,
                                   L.roi.refocus_period)
        g3 == _update_poi_nametag(_update_roi_name(g2, L.roi.name), L.roi.poi_nametag)
        g4 == _update_poi_threshold(g3, L.roi.poi_threshold)
    IN display = _update_poi_diameter(g4, L.roi.poi_diameter).display

\* The backend holds no POI and has reported none.
NoPoiReported == logic_pois = NoPois /\ queue = <<>> /\ markers = <<>>

\* The backend reporting to the activated GUI, the user at the period box:
\* the backend reports about its POIs while the other displays are as
\* on_activate filled them, and about its timer, its state, its threshold
\* and its diameter while it holds no POI.
NextNotify ==
    \/ OnActivate(DefaultUiLayouts, {"add_poi", "set_active_poi"})
    \/ DisplaysAsActivated /\ LogicCalls("add_poi")
    \/ DisplaysAsActivated /\ LogicCalls("set_active_poi")
    \/ DisplaysAsActivated /\ LogicEmitRoi
    \/ HandlePoiUpdated
    \/ HandleActivePoiUpdated
    \/ HandleRoiUpdated
    \/ NoPoiReported /\ LogicReports(TimerReports)
    \/ NoPoiReported /\ LogicReports(StateReports)
    \/ NoPoiReported /\ LogicReports(ThresholdReports)
    \/ NoPoiReported /\ LogicReports(DiameterReports)
    \/ HandleOptimizeTimerUpdated
    \/ HandleOptimizeStateUpdated
    \/ HandleThresholdUpdated
    \/ HandleDiameterUpdated
    \/ NoPoiReported /\ UserFocusesPeriodBox
    \/ NoPoiReported /\ UserTypesPeriod

SpecNotify == Init /\ [][NextNotify]_vars

\* The user clicking the scan image and its markers, the placement mode on
\* or off. The backend deletes POIs while on_activate runs and renames POIs
\* later, so a rename can reach update_poi with the new name still a key of
\* the collection: the marker line 692 drops stays in the view, to be clicked.
NextClick ==
    \/ OnActivate(UiLayouts, {"delete_poi"})
    \/ queue = <<>> /\ orphans = {} /\ LogicCalls("rename_poi")
    \/ HandlePoiUpdated
    \/ UserTogglesPoiSelector
    \/ UserClicksImage
    \/ UserClicksMarker

SpecClick == InitLifecycle /\ [][NextClick]_vars

(***************************************************************************)
(* Claims about the POI markers and the window.                            *)
(***************************************************************************)
SelectedKeys == {markers[i].key : i \in {j \in 1..Len(markers) : markers[j].marker.selected}}
ShownText == currentText(items, index)
PlacementMode == checked["poi_selector_Action"]
DeleteAllSent == \E i \in 1..Len(sent) : sent[i].cmd = "delete_all_pois"

\* C1: between two handlers at most one marker is selected, and whenever the
\* dropdown's current text is non-empty the selected marker is exactly the
\* marker keyed by that text.
C1_OneSelectedShown ==
    /\ Cardinality(SelectedKeys) <= 1
    /\ ShownText # NoName => SelectedKeys = {ShownText}

\* C2: _update_pois over markers M and a mapping D leaves exactly the keys of
\* D; the markers of M \ D are gone from the view and disconnected; those of
\* M \cap D are the markers they were, at their positions in D; those of D \ M
\* are new, in the view and connected once.
C2_Reconciled ==
    [][HandleRoiUpdated =>
         LET D == Head(queue).pois
             M == Keys(markers)
         IN /\ raised' = ""
            /\ Keys(markers') = DOMAIN D
            /\ orphans' = orphans
            /\ created' = DOMAIN D \ M
            /\ \A n \in M \cap DOMAIN D :
                   /\ Get(markers', n).position = D[n]
                   /\ Get(markers', n).in_view = Get(markers, n).in_view
                   /\ Get(markers', n).conn = Get(markers, n).conn
                   /\ Get(markers', n).poi_name = Get(markers, n).poi_name
            /\ \A n \in DOMAIN D \ M :
                   /\ Get(markers', n).in_view
                   /\ Get(markers', n).conn = 1
                   /\ Get(markers', n).poi_name = n]_vars

\* A reconciliation that removed a marker, kept one and created one.
C2_Witness ==
    /\ last_event.name = "_update_pois"
    /\ LET D == DOMAIN last_event.arg[1]
           M == last_event.arg[2]
       IN /\ M \ D # {}
          /\ M \cap D # {}
          /\ D \ M # {}
          /\ Keys(markers) = D

\* C3: after on_deactivate no signal has a connection left, and no marker.
C3_NothingConnectedAfterDeactivate ==
    last_event.name = "on_deactivate" =>
        /\ \A sig \in Signals : conn[sig] = 0
        /\ \A i \in 1..Len(markers) : markers[i].marker.conn = 0
        /\ \A o \in orphans : o.conn = 0

\* C4: after on_activate the five docks are visible and docked and every
\* signal of the three groups is connected.
C4_ActivatedShownConnected ==
    last_event.name = "on_activate" =>
        /\ raised = ""
        /\ mw = "shown"
        /\ \A d \in Docks : visible[d] /\ ~floating[d]
        /\ \A sig \in Range(ConnectedInternalSignals) : conn[sig] >= 1
        /\ \A sig \in Range(ConnectedUpdateSignals) : conn[sig] >= 1
        /\ \A sig \in Range(ConnectedControlSignals) : conn[sig] >= 1

\* A second activation, over a backend that holds every POI.
C4_Witness ==
    /\ last_event.name = "on_activate"
    /\ activations = 2
    /\ Keys(markers) = PoiNames

\* C5: with the placement mode on (the action checked and the flag set), a
\* left click at (cx, cy) sends exactly one add_poi, at (cx, cy, z of the ROI
\* origin read at the click).  The action of a deactivated module's window
\* that show() has shown again can be checked, which switches no mode on.
C5_LeftClickAddsOnePoi ==
    (/\ last_event.name = "image_clicked"
     /\ last_event.arg[2] = "LeftButton"
     /\ PlacementMode
     /\ poi_selector_active)
    => sent = <<[cmd |-> "add_poi",
                 arg |-> <<last_event.arg[1][1], last_event.arg[1][2],
                           last_event.arg[3][3]>>]>>

\* A left click at (5, 7) with the mode on, after the ROI origin has moved.
C5_Witness ==
    /\ last_event = Event("image_clicked", <<<<5, 7>>, "LeftButton", <<4, 5, 6>>>>)
    /\ PlacementMode
    /\ sent = <<[cmd |-> "add_poi", arg |-> <<5, 7, 6>>]>>

\* C6: a click sends no add_poi when the placement mode is off, whatever the
\* button, and none when the button is not the left one, whatever the mode.
C6_NoPoiFromOtherClicks ==
    (/\ last_event.name = "image_clicked"
     /\ (~PlacementMode \/ ~poi_selector_active \/ last_event.arg[2] # "LeftButton"))
    => sent = <<>>

\* A left click with the mode off, in the window of a second activation.
C6_Witness ==
    /\ last_event.name = "image_clicked"
    /\ last_event.arg[2] = "LeftButton"
    /\ ~PlacementMode
    /\ activations = 2
    /\ sent = <<>>

\* The last step was an answer to the delete-all prompt
Answered(result) ==
    last_event.name = "delete_all_pois_clicked" /\ last_event.arg[1] = result

\* C7: delete_all_pois is sent only when a prompt has been answered Yes, and a
\* prompt opens only for a press of the delete-all button that was queued; an
\* answer of No sends nothing and changes nothing of the window, its widgets,
\* the markers or the connections, whatever the GUI thread has handled while
\* the prompt was open.
C7_DeleteAllOnlyOnYes ==
    /\ [](DeleteAllSent => Answered("Yes"))
    /\ [](Answered("No") => sent = <<>>)
    /\ [][Answered("No")' => UNCHANGED windowVars]_vars
    /\ [][Len(dialogs') > Len(dialogs) =>
             (queue # <<>> /\ Head(queue) = DeleteAllClicked /\ queue' = Tail(queue))]_vars
    /\ [][Len(SelectSeq(queue', LAMBDA n : n = DeleteAllClicked))
               > Len(SelectSeq(queue, LAMBDA n : n = DeleteAllClicked))
            => last_event' = Event("del_all_pois_PushButton.clicked", <<>>)]_vars

\* The prompt answered No after the module was deactivated and a POI the
\* backend added was reported and handled, all while the prompt was open: the
\* marker is there, nothing was sent.
C7_Witness ==
    /\ last_event = Event("delete_all_pois_clicked", <<"No", "update_poi">>)
    /\ mw = "closed"
    /\ markers # <<>>
    /\ dialogs = <<>>
    /\ sent = <<>>

(***************************************************************************)
(* Claims about NameValidator, checked under SpecValidator.                *)
(***************************************************************************)
\* The alphabet the specification names: [A-Za-z0-9_]
SpecAlphabet == AsciiWordChars

OnlyFrom(s, alphabet) == \A i \in 1..Len(s) : s[i] \in alphabet

\* The longest prefix of s made only of characters of the alphabet.
LongestPrefix(s, alphabet) ==
    LET n == CHOOSE k \in 0..Len(s) :
                 /\ \A i \in 1..k : s[i] \in alphabet
                 /\ (k = Len(s) \/ s[k + 1] \notin alphabet)
    IN SubSeq(s, 1, n)

\* The first maximal run of characters of the alphabet anywhere in s, <<>> if none.
FirstRun(s, alphabet) ==
    IF \A i \in 1..Len(s) : s[i] \notin alphabet THEN <<>>
    ELSE LET first == CHOOSE i \in 1..Len(s) :
                          /\ s[i] \in alphabet
                          /\ \A j \in 1..(i - 1) : s[j] \notin alphabet
             last == CHOOSE k \in first..Len(s) :
                         /\ \A j \in first..k : s[j] \in alphabet
                         /\ (k = Len(s) \/ s[k + 1] \notin alphabet)
         IN SubSeq(s, first, last)

ValidateRan == "validate" \in nv_calls
FixupRan == "fixup" \in nv_calls

\* C8: a non-empty string of [A-Za-z0-9_] only is Acceptable and returned
\* unchanged; the empty string is Acceptable when empty_allowed and Intermediate
\* otherwise; the returned cursor position is always the input position.
C8_AsciiNamesAcceptable ==
    ValidateRan =>
        /\ (nv_string # <<>> /\ OnlyFrom(nv_string, SpecAlphabet))
               => (nv_result.state = "Acceptable" /\ nv_result.string = nv_string)
        /\ (nv_string = <<>> /\ nv_empty_allowed) => nv_result.state = "Acceptable"
        /\ (nv_string = <<>> /\ ~nv_empty_allowed) => nv_result.state = "Intermediate"
        /\ nv_string = <<>> => nv_result.string = <<>>
        /\ nv_result.position = nv_position

C8_Witness ==
    /\ ValidateRan
    /\ Len(nv_string) >= 2
    /\ OnlyFrom(nv_string, SpecAlphabet)
    /\ nv_position = 1
    /\ nv_result.state = "Acceptable"

\* C9: every string with a character outside [A-Za-z0-9_] is Invalid, returned
\* with its longest prefix of [A-Za-z0-9_] and the position unchanged; so an
\* Acceptable name is one run of [A-Za-z0-9_], or empty with empty_allowed.
C9_NonAsciiInvalid ==
    ValidateRan =>
        /\ ~OnlyFrom(nv_string, SpecAlphabet) =>
               /\ nv_result.state = "Invalid"
               /\ nv_result.string = LongestPrefix(nv_string, SpecAlphabet)
               /\ nv_result.position = nv_position
        /\ nv_result.state = "Acceptable" =>
               /\ OnlyFrom(nv_string, SpecAlphabet)
               /\ (nv_string = <<>> => nv_empty_allowed)

\* C10: fixup returns the first maximal run of allowed characters, those of
\* [A-Za-z0-9_], found anywhere in the text, the empty string if there is
\* none; applying it again changes nothing, and a non-empty result is
\* Acceptable under validate.
C10_FixupFirstRun ==
    /\ FixupRan =>
           /\ nv_fixed = FirstRun(nv_string, SpecAlphabet)
           /\ Fixup(nv_fixed) = nv_fixed
           /\ nv_fixed # <<>> =>
                  Validate(nv_empty_allowed, nv_fixed, nv_position).state = "Acceptable"
    /\ Fixup(<<"a", "!", "b", "@", "c">>) = <<"a">>
    /\ Fixup(<<"!", "!", "!">>) = <<>>

(***************************************************************************)
(* Claims about the ROI history plot, checked under SpecHistory.           *)
(***************************************************************************)
\* The history array the last handler plotted: the one it was handed, or
\* the backend's for None and at activation
PlottedHistory ==
    IF last_event.name = "_update_roi_history" /\ last_event.arg[1] # NoHistory
    THEN last_event.arg[1]
    ELSE logic_roi.history

\* The last handler went through _update_roi_history with an array of width
\* 4 that has rows.
HistoryPlotted ==
    /\ last_event.name \in {"_update_roi_history", "on_activate"}
    /\ PlottedHistory.width = 4
    /\ PlottedHistory.rows # <<>>

\* The largest time stamp of the plotted history
MaxTimeStamp ==
    LET ts == {PlottedHistory.rows[i][1] : i \in 1..Len(PlottedHistory.rows)}
    IN CHOOSE m \in ts : \A t \in ts : t <= m

\* The time axis shows unit units and every time stamp divided by den.
TimeAxisIs(units, den) ==
    /\ display.history_unit = units
    /\ Len(display.time_arr) = Len(PlottedHistory.rows)
    /\ \A i \in 1..Len(PlottedHistory.rows) :
           display.time_arr[i] = [num |-> PlottedHistory.rows[i][1], den |-> den]

\* C11: _update_roi_history picks the unit of the time axis from the largest
\* time stamp m of the history: seconds and the time stamps as they are for
\* m < 300, minutes and time stamps / 60 for 300 <= m < 7200, hours and
\* time stamps / 3600 for 7200 <= m < 172800, days and time stamps / 86400
\* for m >= 172800.
C11_TimeAxisUnit ==
    HistoryPlotted =>
        LET m == MaxTimeStamp IN
        /\ m < 300 => TimeAxisIs("s", 1)
        /\ (300 <= m /\ m < 7200) => TimeAxisIs("min", 60)
        /\ (7200 <= m /\ m < 172800) => TimeAxisIs("h", 3600)
        /\ m >= 172800 => TimeAxisIs("d", 86400)

\* A history of two rows whose largest time stamp is the boundary 7200 has
\* been plotted in hours.
C11_Witness ==
    /\ last_event.name = "_update_roi_history"
    /\ HistoryPlotted
    /\ Len(PlottedHistory.rows) = 2
    /\ MaxTimeStamp = 7200
    /\ TimeAxisIs("h", 3600)

(***************************************************************************)
(* Claims about the view, checked under SpecView.                          *)
(***************************************************************************)
ToolBars == {"roi_management_ToolBar", "poi_ToolBar"}

\* C12: when restore_default_view has run, every visibility toggle action is
\* checked (the five of the docks and the two of the toolbars), and every
\* dock and toolbar is shown, the docks docked.
C12_DefaultViewRestored ==
    last_event.name = "restore_default_view" =>
        /\ \A a \in ViewActions : checked[a]
        /\ \A d \in Docks : visible[d] /\ ~floating[d]
        /\ \A t \in ToolBars : visible[t]

(***************************************************************************)
(* Claims about the commands to the backend, checked under SpecCommands.   *)
(***************************************************************************)
\* C13: no handler of the GUI executes a command of the backend itself while
\* it handles an event: every command is handed over (a queued signal) and
\* the handler does not wait for it.
C13_NoSynchronousCommand == called = <<>>

(***************************************************************************)
(* Claims about PoiMarker, checked under SpecMarker.                       *)
(***************************************************************************)
LastCall == pm_calls[Len(pm_calls)]

\* The last call left the marker's name, position and size alone.
MarkerKept ==
    /\ pm.poi_name = pm_before.poi_name
    /\ pm.position = pm_before.position
    /\ pm.size = pm_before.size

\* C14: after one or more consecutive select calls the marker is selected
\* and has the select pen and label colour, after one or more consecutive
\* deselect calls it is unselected and has the default pen and label colour;
\* a repeated call changes nothing, and neither call changes the marker's
\* name, position or radius.
C14_SelectIdempotent ==
    pm_calls # <<>> =>
        /\ LastCall = "select" =>
               /\ pm.selected
               /\ pm.pen = [color |-> "#FFF", width |-> 2]
               /\ pm.label_color = "#FFF"
        /\ LastCall = "deselect" =>
               /\ ~pm.selected
               /\ pm.pen = [color |-> "#F0F", width |-> 2]
               /\ pm.label_color = "#F0F"
        /\ MarkerKept
        /\ (Len(pm_calls) >= 2 /\ pm_calls[Len(pm_calls) - 1] = LastCall)
               => pm = pm_before

\* A marker named poi1 selected twice in a row after a deselect
C14_Witness ==
    /\ pm_calls = <<"deselect", "select", "select">>
    /\ pm.poi_name = "poi1"
    /\ pm.selected

(***************************************************************************)
(* Claims about the notification handlers, checked under Spec.             *)
(***************************************************************************)
\* C15: when update_active_poi(name) has run, for the empty name no marker
\* is selected and the dropdown has no selection; for a name that is the
\* key of a marker exactly that marker is selected and the dropdown shows
\* the name.
C15_ActivePoiSelected ==
    last_event.name = "update_active_poi" =>
        LET name == last_event.arg[1] IN
        /\ name = NoName => (SelectedKeys = {} /\ index = -1)
        /\ name \in Keys(markers) => (SelectedKeys = {name} /\ ShownText = name)

\* C17: when update_poi runs with old # new, the dropdown's current text
\* afterwards is new if the text shown before was old, and otherwise the text
\* shown before; so deleting the shown POI leaves the dropdown without a
\* selection, and a change to another POI leaves the shown text alone.
C17_ShownTextKept ==
    [][(HandlePoiUpdated /\ Head(queue).old_name # Head(queue).new_name) =>
          currentText(items', index') =
              IF ShownText = Head(queue).old_name
              THEN Head(queue).new_name
              ELSE ShownText]_vars

NotificationHandlers ==
    {"update_poi", "update_active_poi", "_update_pois", "_update_roi_history"}

\* C19: every notification handler returns without raising, whatever the
\* backend delivers and however late the GUI handles it.
C19_HandlersNeverRaise ==
    last_event.name \in NotificationHandlers => raised = ""

\* C24: when a notification handler has finished, the names the dropdown
\* lists are the keys of the marker collection, also when the backend has
\* changed its POIs again and the notifications of that are still queued.
C24_DropdownListsMarkers ==
    last_event.name \in {"update_poi", "update_active_poi", "_update_pois"} =>
        Range(items) = Keys(markers)

(***************************************************************************)
(* Claims about activation beside a running backend, under SpecActivation. *)
(***************************************************************************)
\* on_activate has returned and no notification is waiting.
ActivatedAndQuiet ==
    /\ mw = "shown"
    /\ conn["sigPoiUpdated"] > 0
    /\ queue = <<>>

\* C18: once on_activate has finished and every queued notification has been
\* handled, the keys of the markers are the names of the backend's POIs,
\* whatever the backend did to its POIs during and after on_activate.
C18_MarkersFollowBackend ==
    ActivatedAndQuiet => Keys(markers) = DOMAIN logic_pois

\* update_poi(old, new, position) leaves every marker under another key
\* where it is, and leaves no marker behind in the view.
OtherMarkersKept(old, new) ==
    /\ \A k \in (Keys(markers) \cup Keys(markers')) \ {old, new} :
           /\ k \in Keys(markers)
           /\ k \in Keys(markers')
           /\ Get(markers', k).position = Get(markers, k).position
    /\ orphans' = orphans

\* C16: update_poi(old, new, position) on the marker keys M: for an empty old
\* and a new name not in M the keys become M plus new, its marker attached
\* at the 2D projection of position; for old in M and an empty new they
\* become M minus old, the marker detached and gone; for old in M and a
\* non-empty new they become (M minus old) plus new, held by the marker old
\* had, renamed and moved to the 2D projection of position; no other marker
\* is added, removed or moved.
C16_MarkerKeysUpdated ==
    [][HandlePoiUpdated =>
        LET old == Head(queue).old_name
            new == Head(queue).new_name
            position == Head(queue).position
            M == Keys(markers)
        IN /\ (old = NoName /\ new # NoName /\ new \notin M) =>
                  /\ Keys(markers') = M \cup {new}
                  /\ Get(markers', new).in_view
                  /\ Get(markers', new).position = Proj2(position)
                  /\ OtherMarkersKept(old, new)
           /\ (old \in M /\ new = NoName) =>
                  /\ Keys(markers') = M \ {old}
                  /\ OtherMarkersKept(old, new)
           /\ (old \in M /\ new # NoName) =>
                  /\ Keys(markers') = (M \ {old}) \cup {new}
                  /\ new \notin created'
                  /\ Get(markers', new).poi_name = new
                  /\ Get(markers', new).in_view
                  /\ Get(markers', new).conn = Get(markers, old).conn
                  /\ Get(markers', new).position = Proj2(position)
                  /\ OtherMarkersKept(old, new)]_vars

\* C25: in every state reached through add, delete, rename (also a rename
\* onto a name that has a marker) and reconciliation notifications, the
\* markers in the scan image's view are the markers of the collection, each
\* with one click connection to the backend; no marker outside the
\* collection is still in the view or connected.
C25_ViewHoldsCollection ==
    /\ orphans = {}
    /\ \A i \in 1..Len(markers) :
           markers[i].marker.in_view /\ markers[i].marker.conn = 1

(***************************************************************************)
(* Claims about the order of activation and deactivation, checked under    *)
(* SpecLifecycle.                                                          *)
(***************************************************************************)
SeedSteps ==
    {"__init_roi_scan_image", "__init_roi_history_plot", "update_refocus_timer",
     "_update_pois", "_update_roi_name", "_update_poi_nametag",
     "_update_poi_threshold", "_update_poi_diameter"}
ConnectSteps ==
    {"__connect_internal_signals", "__connect_update_signals_from_logic",
     "__connect_control_signals_to_logic"}
DeactivationOrder ==
    <<"toggle_poi_selector", "__disconnect_control_signals_to_logic",
      "__disconnect_update_signals_from_logic", "__disconnect_internal_signals",
      "close">>

\* The place of a step in the trace, 0 if it did not run
PlaceOf(step) ==
    IF \E i \in 1..Len(trace) : trace[i] = step
    THEN CHOOSE i \in 1..Len(trace) : trace[i] = step
    ELSE 0

\* Every display shows what the backend holds.
DisplaysSeeded ==
    /\ display.scan_image = logic_roi.scan_image
    /\ display.scan_image_extent = logic_roi.scan_image_extent
    /\ display.x_shift = Column(logic_roi.history.rows, 2)
    /\ display.track_period = logic_roi.refocus_period
    /\ display.track_poi_checked = logic_roi.locked
    /\ Keys(markers) = DOMAIN logic_pois
    /\ Range(items) = DOMAIN logic_pois
    /\ display.roi_name = logic_roi.name
    /\ display.poi_nametag = logic_roi.poi_nametag
    /\ display.poi_threshold = logic_roi.poi_threshold
    /\ display.poi_diameter = logic_roi.poi_diameter

\* C20: on_activate seeds every display (scan image, history plot, refocus
\* timer, POI dropdown and markers, ROI name, name-tag, threshold, diameter)
\* from the backend before it connects any of the three groups of signals;
\* on_deactivate switches the POI-placement mode off, disconnects the
\* signals to the backend, then those from the backend, then the internal
\* ones, and closes the window, in this order.
C20_SeedThenConnect ==
    /\ (last_event.name = "on_activate" /\ raised = "") =>
           /\ \A step \in SeedSteps \cup ConnectSteps : PlaceOf(step) > 0
           /\ \A seed \in SeedSteps, connect \in ConnectSteps :
                  PlaceOf(seed) < PlaceOf(connect)
           /\ DisplaysSeeded
    /\ last_event.name = "on_deactivate" =>
           /\ Len(trace) <= Len(DeactivationOrder)
           /\ trace = SubSeq(DeactivationOrder, 1, Len(trace))
           /\ raised = "" => trace = DeactivationOrder

\* A second activation has gone through after a deactivation that ran to its
\* end.
C20_Witness ==
    /\ last_event.name = "on_activate"
    /\ raised = ""
    /\ activations = 2
    /\ Len(trace) = Cardinality(SeedSteps \cup ConnectSteps)
    /\ DisplaysSeeded
    /\ DOMAIN logic_pois # {}

(***************************************************************************)
(* Claims about the POI-placement mode, checked under SpecSelector.        *)
(***************************************************************************)
ToggleEvents == {"toggle_poi_selector", "call_toggle_poi_selector"}

\* C21: after any sequence of toggle_poi_selector calls (the user's toggle,
\* calls by other code with either value, also repeated, and deactivation)
\* the scan image's click signal has one connection to create_poi_from_click
\* when the placement flag is true and none when it is false, no call has
\* disconnected a listener that was not connected, and the toggle action's
\* check state equals the flag.
C21_OneClickListener ==
    /\ conn[MouseClicked] = IF poi_selector_active THEN 1 ELSE 0
    /\ checked["poi_selector_Action"] = poi_selector_active
    /\ last_event.name \in ToggleEvents => raised # "RuntimeError"
    /\ last_event.name = "on_deactivate" =>
           (trace # <<>> /\ trace[1] = "toggle_poi_selector")

(***************************************************************************)
(* Claims about the notifications of the backend, checked under SpecNotify.*)
(***************************************************************************)
NotificationEvents ==
    {"update_refocus_timer", "update_refocus_state", "update_poi",
     "update_active_poi", "_update_pois", "_update_poi_threshold",
     "_update_poi_diameter"}

\* C22: a handler of a notification of the backend (update_refocus_timer,
\* update_refocus_state, update_poi, update_active_poi, update_roi,
\* _update_poi_threshold, _update_poi_diameter) sends no command to the
\* backend: what it writes into the widgets reaches no user-input handler.
C22_NoCommandFromNotification ==
    last_event.name \in NotificationEvents => (sent = <<>> /\ called = <<>>)

\* The threshold box, written without blockSignals, has gone from 1 to 2
\* while its editingFinished and sigPoiThresholdChanged were connected, and
\* nothing was sent.
C22_Witness ==
    /\ last_event = Event("_update_poi_threshold", <<2, 1>>)
    /\ display.poi_threshold = 2
    /\ conn["poi_threshold_doubleSpinBox.editingFinished"] = 1
    /\ conn["sigPoiThresholdChanged"] = 1
    /\ sent = <<>>

\* C23: when update_refocus_timer(is_active, period, time_until_refocus) has
\* run, the period box shows what it showed before if it has the keyboard
\* focus and period otherwise; whether it has the focus or not, the tracking
\* toggle is checked exactly if is_active, the progress bar's maximum is
\* period and its value is time_until_refocus.
C23_RefocusTimerShown ==
    last_event.name = "update_refocus_timer" =>
        LET is_active == last_event.arg[1]
            period == last_event.arg[2]
            time_until_refocus == last_event.arg[3]
            had_focus == last_event.arg[4]
            shown_before == last_event.arg[5]
        IN /\ display.track_period = IF had_focus THEN shown_before ELSE period
           /\ display.has_focus = had_focus
           /\ display.track_poi_checked = is_active
           /\ display.progress_max = period
           /\ display.progress_value = time_until_refocus

\* The backend has reported the period 10 while the box had the focus and
\* showed the 20 the user typed: the box still shows 20, the bar has 5 of 10.
C23_Witness ==
    /\ last_event = Event("update_refocus_timer", <<TRUE, 10, 5, TRUE, 20>>)
    /\ display.track_period = 20
    /\ display.track_poi_checked
    /\ display.progress_max = 10
    /\ display.progress_value = 5

(***************************************************************************)
(* Claims about clicks on the scan image, checked under SpecClick.         *)
(***************************************************************************)
Sent(cmd) == \E i \in 1..Len(sent) : sent[i].cmd = cmd

\* C26: with the placement mode on, a left click that a marker of the scan
\* image has consumed (it selects the marker's POI) sends no add_poi: no
\* click both selects a marker and adds a POI.
C26_ConsumedClickAddsNoPoi ==
    /\ (/\ last_event.name = "marker_clicked"
        /\ last_event.arg[2] \in AcceptedMouseButtons) => ~Sent("add_poi")
    /\ ~(Sent("add_poi") /\ Sent("set_active_poi"))

(***************************************************************************)
(* Claims about a marker requested twice, checked under SpecActivation.    *)
(***************************************************************************)
\* The notification n asks update_poi to add a marker under a name that has one
DuplicateAdd(n) ==
    /\ n.sig = "sigPoiUpdated"
    /\ n.old_name = NoName
    /\ n.new_name \in Keys(markers)

\* C27: update_poi asked to add a marker for a name that has one logs the
\* error and skips: the collection keeps the marker of that name as it was
\* (position, size, selected flag, view attachment, connection), and no
\* marker is created.
C27_DuplicateAddSkipped ==
    [][(/\ queue # <<>>
        /\ queue' = Tail(queue)
        /\ DuplicateAdd(Head(queue)))
       => (/\ "POI marker already present" \in log'
           /\ created' = {}
           /\ Keys(markers') = Keys(markers)
           /\ Len(markers') = Len(markers)
           /\ Get(markers', Head(queue).new_name) = Get(markers, Head(queue).new_name))]_vars

(***************************************************************************)
(* Claims about ROI updates of any shape, checked under SpecRoiDict.       *)
(***************************************************************************)
HistoryFields == {"history_unit", "time_arr", "x_shift", "y_shift", "z_shift"}
ImageFields == {"scan_image", "scan_image_extent"}

\* The fields of display that an update with the dict d may change
ChangeableBy(d) ==
    LET has(k) == k \in DOMAIN d IN
    (IF has("name") THEN {"roi_name"} ELSE {})
        \cup (IF has("poi_nametag") THEN {"poi_nametag"} ELSE {})
        \cup (IF has("history") /\ d["history"].width = 4 THEN HistoryFields ELSE {})
        \cup (IF has("scan_image") /\ has("scan_image_extent")
                 /\ d["scan_image"] # NoneValue
              THEN ImageFields ELSE {})

\* C28: update_roi handed a value that is no dict changes nothing of the
\* GUI; handed a dict, it changes only the displays whose keys the dict
\* holds: a history whose width is not 4 leaves the three curves and the
\* unit of the time axis as they were, the scan image and its extent change
\* only when both keys are there and the image is not None, the markers and
\* the dropdown only with the key pois.
C28_OnlyPresentKeysShown ==
    [][last_event'.name = "update_roi" =>
         LET d == last_event'.arg[1] IN
         IF ~IsDict(d) THEN guiVars' = guiVars
         ELSE /\ \A f \in (DOMAIN display) \ ChangeableBy(d) :
                     display'[f] = display[f]
              /\ ("pois" \notin DOMAIN d) =>
                     <<markers, orphans, items, index, coords>>'
                         = <<markers, orphans, items, index, coords>>
              /\ <<mw, conn, checked, visible, floating, poi_selector_active, cursor>>'
                     = <<mw, conn, checked, visible, floating, poi_selector_active, cursor>>]_vars

\* A dict with a name, a history of width 3 and an image of None with its
\* extent has been handled: the name is shown, the error is logged, the plot
\* and the image are the ones of the activation.
C28_Witness ==
    /\ last_event = Event("update_roi",
                          <<[name |-> "roi2", history |-> History(3, <<<<0, 1, 2>>>>),
                             scan_image |-> NoneValue,
                             scan_image_extent |-> "extent2"]>>)
    /\ display.roi_name = "roi2"
    /\ "ROI history must be an array of type float[][4]." \in log
    /\ display.history_unit = "s"
    /\ display.x_shift = <<1>>
    /\ display.scan_image = "image"
    /\ display.scan_image_extent = "extent"
    /\ Keys(markers) = {"poi1"}

(***************************************************************************)
(* Claims about the POI name field, checked under SpecRename.              *)
(***************************************************************************)
\* C29: Enter in the POI name field sends one rename_poi with the field's
\* text exactly when the text is not empty and is not the dropdown's current
\* text, and the field is empty afterwards; otherwise nothing is sent.
C29_RenameOnNewName ==
    last_event.name = "poi_name_entered" =>
        LET text == last_event.arg[1]
            shown == last_event.arg[2]
        IN IF text # "" /\ text # shown
           THEN /\ sent = <<[cmd |-> "rename_poi", arg |-> <<text>>]>>
                /\ display.poi_name = ""
           ELSE sent = <<>>

\* The dropdown showing poi1, the user has entered poi2: the rename went out
\* and the field is empty.
C29_Witness ==
    /\ last_event = Event("poi_name_entered", <<"poi2", "poi1">>)
    /\ currentText(items, index) = "poi1"
    /\ sent = <<[cmd |-> "rename_poi", arg |-> <<"poi2">>]>>
    /\ display.poi_name = ""

(***************************************************************************)
(* Claims about the size of the markers, checked under SpecSize.           *)
(***************************************************************************)
\* C30: between two handlers, whatever reconciliations, update_poi and
\* update_active_poi have run and however the backend's optimisation size
\* has changed meanwhile, the markers of the collection all have one size.
C30_MarkersShareSize ==
    \A i, j \in 1..Len(markers) :
        markers[i].marker.size.s = markers[j].marker.size.s

(***************************************************************************)
(* Claims about the names of the markers, checked under SpecMarkerName.    *)
(***************************************************************************)
\* C31: the marker stored under the key k of the collection has the
\* poi_name k, also after a rename, and a left click on it sends k as the
\* name of the POI to make active.
C31_MarkerNamedAsKey ==
    /\ \A i \in 1..Len(markers) : markers[i].marker.poi_name = markers[i].key
    /\ (/\ last_event.name = "marker_clicked"
        /\ last_event.arg[2] \in AcceptedMouseButtons)
           => /\ Sent("set_active_poi")
              /\ \A i \in 1..Len(sent) :
                     sent[i].cmd = "set_active_poi" => sent[i].arg = <<last_event.arg[1]>>

\* update_poi has renamed the marker poi1 to poi2: it is stored under poi2
\* with the poi_name poi2, and no marker is stored under poi1.
C31_Witness ==
    /\ last_event.name = "update_poi"
    /\ last_event.arg[1] = "poi1"
    /\ last_event.arg[2] = "poi2"
    /\ raised = ""
    /\ Keys(markers) = {"poi2"}
    /\ Get(markers, "poi2").poi_name = "poi2"
    /\ Get(markers, "poi2").conn = 1

=============================================================================
